---- MODULE Spec2Model ----
(***************************************************************************)
(* A model of the xnt HTTP API client: the streaming reader               *)
(* (HTTPApiStreaming), the JWT token rotation thread (JWTAuth), the REST   *)
(* retry wrapper (HTTPApi.__request) and the order calls that fall back    *)
(* from the order shape to the rejection shape.                            *)
(***************************************************************************)
EXTENDS Integers, Sequences, FiniteSets, TLC

VARIABLES
    \* ---- HTTPApiStreaming ----
    event_filter,   \* self.event_filter: "order", "trade" or "none" (None)
    is_finished,    \* self.is_finished (threading.Event)
    queue,          \* self.queue (Queue(maxsize=0)): objects not yet taken
    rpc,            \* where the reader thread (run) is
    message,        \* the line the for loop holds
    cause,          \* the exception that ended the reader thread, "" if none
    spc,            \* where the caller of stop() is
    ret,            \* what the last get() gave its caller
    received,       \* history: every line iter_lines has yielded
    putlog,         \* history: every object queue.put was called with
    handled,        \* history: number of lines the loop body has run for
    conns,          \* history: number of session.get calls issued
    drops,          \* history: number of connections that ended
    \* ---- JWTAuth ----
    ttl,            \* self.ttl
    token,          \* self.token
    cpc,            \* where the constructing thread is
    jpc,            \* where the rotation thread (run) is
    jnow,           \* make_token: the time read into now
    slept,          \* the time sleep(self.ttl) was entered
    now,            \* the clock
    sent,           \* the last request prepared by __call__
    \* ---- HTTPApi.__request under backoff.on_exception ----
    qpc,            \* where the call is
    tries,          \* backoff: tries
    elapsed,        \* backoff: elapsed, read at the top of each try
    clock,          \* seconds since the call began
    outcomes,       \* history: how each attempt ended
    result,         \* what the caller got: "response" or the exception
    \* ---- place_order, cancel_order, replace_order ----
    opc,            \* where the call is
    call,           \* the method called
    version,        \* the version argument ("none" for None)
    self_version,   \* self.version
    body,           \* what _post returned
    answer,         \* what the caller got
    \* ---- the consumer of a subscription: HTTPApiStreaming.get ----
    gpc,            \* "idle", or "waiting" inside queue.get(block=True, ...)
    gcall,          \* the arguments of the last get() call
    taken,          \* history: every object a get() call has returned
    \* ---- HTTPApi.__init__ and the calls on the client ----
    hpc,            \* where the constructor is
    hargs,          \* the arguments the constructor was called with
    self_auth,      \* self.auth
    \* ---- the serializer, called on its own ----
    dpc,            \* where the call is
    din,            \* the operation and its arguments
    dout            \* what the caller got

svars == <<event_filter, is_finished, queue, rpc, message, cause, spc, ret,
           received, putlog, handled, conns, drops>>

jvars == <<ttl, token, cpc, jpc, jnow, slept, now, sent>>

qvars == <<qpc, tries, elapsed, clock, outcomes, result>>

ovars == <<opc, call, version, self_version, body, answer>>

gvars == <<gpc, gcall, taken>>

hvars == <<hpc, hargs, self_auth>>

dvars == <<dpc, din, dout>>

vars == <<svars, jvars, qvars, ovars, gvars, hvars, dvars>>

(***************************************************************************)
(* Bounds of the model.                                                    *)
(***************************************************************************)
MaxLines == 2
MaxConns == 2
MaxTtl == 2
MaxTime == 4
MaxAttempts == 7
MaxItems == 2

(***************************************************************************)
(* JSON values, by shape.  t is the JSON type, shape names the schema      *)
(* variant whose field set the keys of a mapping match ("Empty" for {}),   *)
(* len the length of a list (all its items have the shape), id tells the   *)
(* values apart.                                                           *)
(***************************************************************************)
JVal(t, shape, len, id) == [t |-> t, shape |-> shape, len |-> len, id |-> id]

None == JVal("null", "", 0, 0)

\* cls(**cls._empty_init()): the instance with every field None
EmptyInstance(cls) == JVal("inst", cls, 0, 0)

\* cls(**data): the instance built from the mapping obj
Instance(cls, obj) == JVal("inst", cls, 0, obj.id)

Returns(v) == [exc |-> "", val |-> v]
Raises(e) == [exc |-> e, val |-> None]

\* cls(**data) raises TypeError unless the keys of the mapping are the
\* parameters of cls.__init__
Fits(cls, obj) == obj.shape = cls

\* obj in (None, [], {}, [{}])
IsEmptyInput(obj) ==
    \/ obj.t = "null"
    \/ obj.t = "list" /\ obj.len = 0
    \/ obj.t = "dict" /\ obj.shape = "Empty"
    \/ obj.t = "list" /\ obj.len = 1 /\ obj.shape = "Empty"

from_json(cls, obj, eraise) ==
    IF IsEmptyInput(obj) THEN Returns(EmptyInstance(cls))
    ELSE IF obj.t = "dict" THEN
        IF Fits(cls, obj) THEN Returns(Instance(cls, obj))
        ELSE IF eraise THEN Raises("RuntimeError")
        ELSE Returns(None)
    ELSE IF obj.t = "inst" /\ obj.shape = cls THEN Returns(obj)
    ELSE Returns(None)

(***************************************************************************)
(* Stream lines.  kind: "invalid" (not JSON), "scalar" (JSON, no object)   *)
(* or "dict"; event: the value of the "event" key, "none" if absent;       *)
(* payload: the shape of the value under the key named by the event,       *)
(* "absent" if there is no such key, "scalar" if it is no mapping, "Empty" *)
(* if it is {}; env: the shape of the whole object.                        *)
(***************************************************************************)
StreamModel == "Order"

LineKinds ==
    { [kind |-> "invalid", event |-> "none",      payload |-> "absent", env |-> "Other"],
      [kind |-> "scalar",  event |-> "none",      payload |-> "absent", env |-> "Other"],
      [kind |-> "dict",    event |-> "heartbeat", payload |-> "absent", env |-> "Other"],
      [kind |-> "dict",    event |-> "order",     payload |-> "Order",  env |-> "Other"],
      [kind |-> "dict",    event |-> "order",     payload |-> "Other",  env |-> "Other"],
      [kind |-> "dict",    event |-> "order",     payload |-> "absent", env |-> "Other"],
      [kind |-> "dict",    event |-> "order",     payload |-> "scalar", env |-> "Other"],
      [kind |-> "dict",    event |-> "order",     payload |-> "Empty",  env |-> "Other"],
      [kind |-> "dict",    event |-> "trade",     payload |-> "absent", env |-> "Order"],
      [kind |-> "dict",    event |-> "none",      payload |-> "absent", env |-> "Order"],
      [kind |-> "dict",    event |-> "none",      payload |-> "absent", env |-> "Other"] }

Line(k, id) == [kind |-> k.kind, event |-> k.event, payload |-> k.payload,
                env |-> k.env, id |-> id]

NoLine == [kind |-> "", event |-> "", payload |-> "", env |-> "", id |-> 0]

\* json.loads(message.decode())
json_loads(m) ==
    IF m.kind = "invalid" THEN Raises("JSONDecodeError")
    ELSE IF m.kind = "scalar" THEN Returns(JVal("scalar", "", 0, m.id))
    ELSE Returns(JVal("dict", m.env, 0, m.id))

\* mes[key], for the key the event filter names; the value nested in line
\* id carries -id, the whole object id
GetItem(m, key) ==
    IF m.event = key /\ m.payload = "scalar"
    THEN Returns(JVal("scalar", "", 0, 0 - m.id))
    ELSE IF m.event = key /\ m.payload # "absent"
    THEN Returns(JVal("dict", m.payload, 0, 0 - m.id))
    ELSE Raises("KeyError")

\* The body of the for loop of run() for one line: what is put on the
\* queue (put = TRUE and obj) and the exception that leaves run(), if any.
Outcome(put, obj, exc) == [put |-> put, obj |-> obj, exc |-> exc]

\* mutant: the decode is called leniently, so a payload the model rejects
\* comes back as None and is put on the queue
PutResultLenient(r) ==
    IF r.exc = "" THEN Outcome(TRUE, r.val, "")
    ELSE IF r.exc = "RuntimeError" THEN Outcome(TRUE, None, "")
    ELSE Outcome(FALSE, None, r.exc)

\* mutant: run() has no except clause, so the schema error of the decode
\* leaves run() and ends the thread
PutResultUncaught(r) ==
    IF r.exc = "" THEN Outcome(TRUE, r.val, "")
    ELSE Outcome(FALSE, None, r.exc)

PutResult(r) ==
    IF r.exc = "" THEN Outcome(TRUE, r.val, "")
    ELSE IF r.exc = "RuntimeError" THEN Outcome(FALSE, None, "")   \* logged
    ELSE Outcome(FALSE, None, r.exc)

\* mutant: the else branch hangs on the inner if, so a line whose event
\* does not match the filter is decoded whole
HandleLineDanglingElse(m, filter) ==
    LET mes == json_loads(m) IN
    IF mes.exc # "" THEN Outcome(FALSE, None, mes.exc)
    ELSE IF filter # "none" /\ mes.val.t # "dict"
        THEN Outcome(FALSE, None, "AttributeError")
    ELSE IF filter # "none" /\ filter = m.event THEN
        LET item == GetItem(m, filter) IN
        IF item.exc # "" THEN Outcome(FALSE, None, item.exc)
        ELSE PutResult(from_json(StreamModel, item.val, TRUE))
    ELSE PutResult(from_json(StreamModel, mes.val, TRUE))

\* mutant: without a filter the line is decoded leniently and the result,
\* None for an object the model rejects, is put on the queue
HandleLineLenientUnfiltered(m, filter) ==
    LET mes == json_loads(m) IN
    IF mes.exc # "" THEN Outcome(FALSE, None, mes.exc)
    ELSE IF filter # "none" THEN
        IF mes.val.t # "dict" THEN Outcome(FALSE, None, "AttributeError")
        ELSE IF filter = m.event THEN
            LET item == GetItem(m, filter) IN
            IF item.exc # "" THEN Outcome(FALSE, None, item.exc)
            ELSE PutResult(from_json(StreamModel, item.val, TRUE))
        ELSE Outcome(FALSE, None, "")
    ELSE PutResult(from_json(StreamModel, mes.val, FALSE))

HandleLine(m, filter) ==
    LET mes == json_loads(m) IN
    IF mes.exc # "" THEN Outcome(FALSE, None, mes.exc)
    ELSE IF filter # "none" THEN
        IF mes.val.t # "dict" THEN Outcome(FALSE, None, "AttributeError")
        ELSE IF filter = m.event THEN
            LET item == GetItem(m, filter) IN
            IF item.exc # "" THEN Outcome(FALSE, None, item.exc)
            ELSE PutResult(from_json(StreamModel, item.val, TRUE))
        ELSE Outcome(FALSE, None, "")
    ELSE PutResult(from_json(StreamModel, mes.val, TRUE))

(***************************************************************************)
(* The streams the client opens: the event filter each hands to            *)
(* HTTPApiStreaming, for the version argument v ("none" for None) and the  *)
(* client's self.version.                                                  *)
(***************************************************************************)
Opened(filter) == [exc |-> "", filter |-> filter]

\* event_filter is left at its default, None
get_quote_stream(v, self_v) == Opened("none")

\* raise NotImplemented(...) unless the argument itself is "3.0":
\* NotImplemented is not callable
get_trade_stream(v, self_v) ==
    IF v # "3.0" THEN [exc |-> "TypeError", filter |-> "none"]
    ELSE Opened("none")

get_orders_stream(v, self_v) == Opened("order")

get_exec_orders_stream(v, self_v) ==
    Opened(IF v = "3.0" \/ self_v = "3.0" THEN "trade" ELSE "none")

\* the streams that open, over every version argument and default version
OpenStreams ==
    LET vs == {"1.0", "2.0", "3.0"}
        all == UNION { { get_quote_stream(v, sv), get_trade_stream(v, sv),
                         get_orders_stream(v, sv), get_exec_orders_stream(v, sv) }
                       : v \in vs \cup {"none"}, sv \in vs }
    IN { o \in all : o.exc = "" }

StreamFilters == { o.filter : o \in OpenStreams }

(***************************************************************************)
(* JWTAuth: the token and the Authorization header                         *)
(***************************************************************************)
\* self.token = None
NoToken == [iat |-> 0 - 1, exp |-> 0 - 1]

\* make_token: the claims the token is signed over, as far as time goes
make_token(t, life) == [iat |-> t, exp |-> t + life]

\* f"Bearer {self.token}"
Bearer(tok) == IF tok = NoToken THEN "Bearer None" ELSE "Bearer token"

\* no request has been prepared; by: "call" for a REST call, "stream" for
\* the GET of a subscription
NoRequest == [header |-> "", token |-> NoToken, at |-> 0 - 1, by |-> ""]

\* __init__: self.token = None
TokenAtInit == NoToken

\* mutant: the header is built from the token the auth object had when it
\* was created
JWTAuth_call_snapshot(by) ==
    [header |-> Bearer(TokenAtInit), token |-> TokenAtInit, at |-> now, by |-> by]

\* JWTAuth.__call__(r): requests calls it while it prepares each request
JWTAuth_call(by) ==
    [header |-> Bearer(token), token |-> token, at |-> now, by |-> by]

(***************************************************************************)
(* HTTPApiStreaming                                                        *)
(***************************************************************************)
\* mutant: the loop does not test the stop flag (while True:)
LoopCondForever == TRUE

\* while not self.is_finished.is_set():
LoopCond == ~is_finished

\* the while test of run(); the loop body starts with session.get, which
\* prepares the request with auth=self.auth (a JWTAuth if one was made)
LoopTest ==
    /\ rpc = "while"
    /\ IF LoopCond
       THEN /\ conns < MaxConns
            /\ rpc' = "get"
            /\ conns' = conns + 1
            /\ sent' = IF cpc = "unused" THEN sent ELSE JWTAuth_call("stream")
       ELSE /\ rpc' = "done"
            /\ conns' = conns
            /\ sent' = sent
    /\ UNCHANGED <<event_filter, is_finished, queue, message, cause, spc, ret,
                   received, putlog, handled, drops>>
    /\ UNCHANGED <<ttl, token, cpc, jpc, jnow, slept, now>>
    /\ UNCHANGED <<qvars, ovars, gvars, hvars, dvars>>

\* session.get(...) returns a response; iter_lines starts
GetReturns ==
    /\ rpc = "get"
    /\ rpc' = "iter"
    /\ UNCHANGED <<event_filter, is_finished, queue, message, cause, spc, ret,
                   received, putlog, handled, conns, drops>>
    /\ UNCHANGED <<jvars, qvars, ovars, gvars, hvars, dvars>>

\* session.get(...) raises (ConnectionError, Timeout): nothing in run()
\* catches it
GetRaises ==
    /\ rpc = "get"
    /\ rpc' = "dead"
    /\ cause' = "ConnectionError"
    /\ drops' = drops + 1
    /\ UNCHANGED <<event_filter, is_finished, queue, message, spc, ret,
                   received, putlog, handled, conns>>
    /\ UNCHANGED <<jvars, qvars, ovars, gvars, hvars, dvars>>

\* iter_lines yields the next line
NextLine ==
    /\ rpc = "iter"
    /\ Len(received) < MaxLines
    /\ \E k \in LineKinds :
          /\ message' = Line(k, Len(received) + 1)
          /\ received' = Append(received, message')
    /\ rpc' = "line"
    /\ UNCHANGED <<event_filter, is_finished, queue, cause, spc, ret,
                   putlog, handled, conns, drops>>
    /\ UNCHANGED <<jvars, qvars, ovars, gvars, hvars, dvars>>

\* the server ends the stream: iter_lines is exhausted, the for loop ends
StreamEnds ==
    /\ rpc = "iter"
    /\ rpc' = "while"
    /\ drops' = drops + 1
    /\ UNCHANGED <<event_filter, is_finished, queue, message, cause, spc, ret,
                   received, putlog, handled, conns>>
    /\ UNCHANGED <<jvars, qvars, ovars, gvars, hvars, dvars>>

\* reading the next line raises (socket error, read timeout): nothing in
\* run() catches it
ReadRaises ==
    /\ rpc = "iter"
    /\ rpc' = "dead"
    /\ cause' = "ConnectionError"
    /\ drops' = drops + 1
    /\ UNCHANGED <<event_filter, is_finished, queue, message, spc, ret,
                   received, putlog, handled, conns>>
    /\ UNCHANGED <<jvars, qvars, ovars, gvars, hvars, dvars>>

\* one pass of the for loop for the line held in message: the stop test,
\* then the try block
ProcessLine ==
    /\ rpc = "line"
    /\ IF is_finished
       THEN /\ rpc' = "while"                    \* break
            /\ UNCHANGED <<queue, putlog, handled, cause>>
       ELSE LET o == HandleLine(message, event_filter) IN
            /\ handled' = handled + 1
            /\ IF o.put
               THEN /\ queue' = Append(queue, o.obj)
                    /\ putlog' = Append(putlog, o.obj)
               ELSE UNCHANGED <<queue, putlog>>
            /\ IF o.exc # ""
               THEN rpc' = "dead" /\ cause' = o.exc
               ELSE rpc' = "iter" /\ cause' = cause
    /\ UNCHANGED <<event_filter, is_finished, message, spc, ret, received,
                   conns, drops>>
    /\ UNCHANGED <<jvars, qvars, ovars, gvars, hvars, dvars>>

\* The same pass of the for loop in two steps, for the interleaving with
\* stop(): first the stop test,
LineTest ==
    /\ rpc = "line"
    /\ rpc' = IF is_finished THEN "while" ELSE "try"       \* break
    /\ UNCHANGED <<event_filter, is_finished, queue, message, cause, spc, ret,
                   received, putlog, handled, conns, drops>>
    /\ UNCHANGED <<jvars, qvars, ovars, gvars, hvars, dvars>>

\* then the try block, which no longer looks at the flag
LineBody ==
    /\ rpc = "try"
    /\ LET o == HandleLine(message, event_filter) IN
          /\ handled' = handled + 1
          /\ IF o.put
             THEN /\ queue' = Append(queue, o.obj)
                  /\ putlog' = Append(putlog, o.obj)
             ELSE UNCHANGED <<queue, putlog>>
          /\ IF o.exc # ""
             THEN rpc' = "dead" /\ cause' = o.exc
             ELSE rpc' = "iter" /\ cause' = cause
    /\ UNCHANGED <<event_filter, is_finished, message, spc, ret, received,
                   conns, drops>>
    /\ UNCHANGED <<jvars, qvars, ovars, gvars, hvars, dvars>>

\* stop(): self.is_finished.set()
Stop ==
    /\ spc = "idle"
    /\ is_finished' = TRUE
    /\ spc' = "join"
    /\ UNCHANGED <<event_filter, queue, rpc, message, cause, ret, received,
                   putlog, handled, conns, drops>>
    /\ UNCHANGED <<jvars, qvars, ovars, gvars, hvars, dvars>>

\* mutant: stop() only sets the flag and returns, without self.join()
JoinNoWait ==
    /\ spc = "join"
    /\ spc' = "returned"
    /\ UNCHANGED <<event_filter, is_finished, queue, rpc, message, cause, ret,
                   received, putlog, handled, conns, drops>>
    /\ UNCHANGED <<jvars, qvars, ovars, gvars, hvars, dvars>>

\* stop(): self.join() returns once run() has ended
Join ==
    /\ spc = "join"
    /\ rpc \in {"done", "dead"}
    /\ spc' = "returned"
    /\ UNCHANGED <<event_filter, is_finished, queue, rpc, message, cause, ret,
                   received, putlog, handled, conns, drops>>
    /\ UNCHANGED <<jvars, qvars, ovars, gvars, hvars, dvars>>

\* no get() call has been made
NotCalled == [exc |-> "not called", val |-> None]

NoCall == [block |-> FALSE, eraise |-> FALSE]

\* mutant: the except clause swallows Empty whatever eraise is
OnEmptyAlwaysNone(eraise) == Returns(None)

\* get(): the except clause around queue.get
OnEmpty(eraise) == IF eraise THEN Raises("Empty") ELSE Returns(None)

\* get(block=False, timeout, eraise): queue.get returns the head of the
\* queue or raises Empty at once
Get ==
    /\ gpc = "idle"
    /\ \E eraise \in BOOLEAN :
          /\ gcall' = [block |-> FALSE, eraise |-> eraise]
          /\ IF queue # <<>>
             THEN /\ ret' = Returns(Head(queue))
                  /\ taken' = Append(taken, Head(queue))
                  /\ queue' = Tail(queue)
             ELSE /\ ret' = OnEmpty(eraise)
                  /\ taken' = taken
                  /\ queue' = queue
    /\ UNCHANGED <<event_filter, is_finished, rpc, message, cause, spc,
                   received, putlog, handled, conns, drops>>
    /\ UNCHANGED <<gpc>>
    /\ UNCHANGED <<jvars, qvars, ovars, hvars, dvars>>

\* get(block=True, timeout, eraise): queue.get returns the head of the
\* queue, or waits for an object for up to timeout seconds
GetBlocking ==
    /\ gpc = "idle"
    /\ \E eraise \in BOOLEAN :
          /\ gcall' = [block |-> TRUE, eraise |-> eraise]
          /\ IF queue # <<>>
             THEN /\ ret' = Returns(Head(queue))
                  /\ taken' = Append(taken, Head(queue))
                  /\ queue' = Tail(queue)
                  /\ gpc' = "idle"
             ELSE /\ gpc' = "waiting"
                  /\ UNCHANGED <<ret, taken, queue>>
    /\ UNCHANGED <<event_filter, is_finished, rpc, message, cause, spc,
                   received, putlog, handled, conns, drops>>
    /\ UNCHANGED <<jvars, qvars, ovars, hvars, dvars>>

\* queue.get(block=True): an object was put while the call waited
GetWakes ==
    /\ gpc = "waiting"
    /\ queue # <<>>
    /\ ret' = Returns(Head(queue))
    /\ taken' = Append(taken, Head(queue))
    /\ queue' = Tail(queue)
    /\ gpc' = "idle"
    /\ UNCHANGED <<event_filter, is_finished, rpc, message, cause, spc,
                   received, putlog, handled, conns, drops>>
    /\ UNCHANGED <<gcall>>
    /\ UNCHANGED <<jvars, qvars, ovars, hvars, dvars>>

\* queue.get(block=True, timeout): the timeout is over and the queue is
\* still empty: queue.get raises Empty
GetTimesOut ==
    /\ gpc = "waiting"
    /\ queue = <<>>
    /\ ret' = OnEmpty(gcall.eraise)
    /\ gpc' = "idle"
    /\ UNCHANGED <<event_filter, is_finished, queue, rpc, message, cause, spc,
                   received, putlog, handled, conns, drops>>
    /\ UNCHANGED <<gcall, taken>>
    /\ UNCHANGED <<jvars, qvars, ovars, hvars, dvars>>

(***************************************************************************)
(* JWTAuth                                                                 *)
(***************************************************************************)
\* the thread run() is in when __init__ returns: start() has started it
StartedAt == "make"

\* JWTAuth.__init__: the fields, self.token, then self.start()
Construct ==
    /\ cpc = "new"
    /\ token' = TokenAtInit
    /\ jpc' = StartedAt
    /\ cpc' = "returned"
    /\ UNCHANGED <<ttl, jnow, slept, now, sent>>
    /\ UNCHANGED <<svars, qvars, ovars, gvars, hvars, dvars>>

\* run(): make_token reads the clock
RunMakeToken ==
    /\ jpc = "make"
    /\ jnow' = now
    /\ jpc' = "assign"
    /\ UNCHANGED <<ttl, token, cpc, slept, now, sent>>
    /\ UNCHANGED <<svars, qvars, ovars, gvars, hvars, dvars>>

\* run(): self.token = <the token made>, then sleep(self.ttl) begins
RunAssign ==
    /\ jpc = "assign"
    /\ token' = make_token(jnow, ttl)
    /\ slept' = now
    /\ jpc' = "sleep"
    /\ UNCHANGED <<ttl, cpc, jnow, now, sent>>
    /\ UNCHANGED <<svars, qvars, ovars, gvars, hvars, dvars>>

\* sleep(self.ttl) is over
WakeTime == slept + ttl

\* run(): sleep(self.ttl) returns, the loop goes round
RunWake ==
    /\ jpc = "sleep"
    /\ now >= WakeTime
    /\ jpc' = "make"
    /\ UNCHANGED <<ttl, token, cpc, jnow, slept, now, sent>>
    /\ UNCHANGED <<svars, qvars, ovars, gvars, hvars, dvars>>

\* __call__: a request is prepared with the token read now
Call ==
    /\ cpc = "returned"
    /\ sent' = JWTAuth_call("call")
    /\ UNCHANGED <<ttl, token, cpc, jpc, jnow, slept, now>>
    /\ UNCHANGED <<svars, qvars, ovars, gvars, hvars, dvars>>

\* a second passes
Tick ==
    /\ cpc = "returned"
    /\ now < MaxTime
    /\ now' = now + 1
    /\ UNCHANGED <<ttl, token, cpc, jpc, jnow, slept, sent>>
    /\ UNCHANGED <<svars, qvars, ovars, gvars, hvars, dvars>>

(***************************************************************************)
(* HTTPApi.__request under @backoff.on_exception(backoff.constant, ...,    *)
(* max_tries=5, max_time=60)                                               *)
(***************************************************************************)
max_tries == 5
max_time == 60

\* the exceptions the decorator retries on
Retryable == {"ConnectionError", "ReadTimeout"}

\* method(url, ...) returns a Response for every status the server sends:
\* requests raises for no status, and __request does not look at it
Responses == {"response 2xx", "response 4xx", "response 5xx"}

\* method(url, ...) is called without timeout=: when the server accepts the
\* connection and sends nothing, the call does not come back
NoAnswer == "no answer"

\* how an attempt (method(url, ...)) can end: a response of any status, an
\* exception the decorator names, another exception of requests, or not
\* at all
AttemptOutcomes ==
    Responses \cup {"ConnectionError", "ReadTimeout", "InvalidURL", NoAnswer}

\* mutant: a response that is no success is raised, as raise_for_status does
ReturnsResponseOkOnly(o) == o = "response 2xx"

\* the attempt ends with return method(...): the decorator sees no
\* exception and hands the response to the caller
ReturnsResponse(o) == o \in Responses

\* the seconds an attempt can take, and the seconds backoff.constant with
\* full jitter can ask to sleep
AttemptSeconds == {0, 30, 60}
WaitSeconds == {0, 1}

Min(a, b) == IF a <= b THEN a ELSE b

\* mutant: the try count is compared one too late
GiveUpOffByOne(n, secs) == n = max_tries + 1 \/ secs >= max_time

\* backoff: max_tries_exceeded or max_time_exceeded
GiveUp(n, secs) == n = max_tries \/ secs >= max_time

\* backoff: the top of the retry loop (tries += 1, elapsed read), then
\* the attempt itself and what the decorator does with its end
Attempt ==
    /\ qpc = "try"
    /\ tries < MaxAttempts
    /\ \E o \in AttemptOutcomes, d \in AttemptSeconds :
          /\ tries' = tries + 1
          /\ elapsed' = clock
          /\ clock' = clock + d
          /\ outcomes' = Append(outcomes, o)
          /\ IF ReturnsResponse(o)
             THEN qpc' = "returned" /\ result' = o
             ELSE IF o = NoAnswer
             THEN qpc' = "blocked" /\ result' = result
             ELSE IF o \in Retryable /\ ~GiveUp(tries', elapsed')
             THEN qpc' = "sleep" /\ result' = result
             ELSE qpc' = "raised" /\ result' = o
    /\ UNCHANGED <<svars, jvars, ovars, gvars, hvars, dvars>>

\* backoff: time.sleep(min(jitter(1), max_time - elapsed))
Backoff ==
    /\ qpc = "sleep"
    /\ \E w \in WaitSeconds : clock' = clock + Min(w, max_time - elapsed)
    /\ qpc' = "try"
    /\ UNCHANGED <<tries, elapsed, outcomes, result>>
    /\ UNCHANGED <<svars, jvars, ovars, gvars, hvars, dvars>>

(***************************************************************************)
(* extract_to_model and the order calls                                    *)
(***************************************************************************)
versions == {"1.0", "2.0", "3.0"}

\* the abstract types the client resolves a model for
AbstractTypes == {"Change", "ExOrder", "Order", "Quote", "Summary", "Symbol",
                  "Trade", "Transaction"}

\* the tag of the variants of a version: OrderV1, OrderV2, OrderV3, TradeV2
VersionTag == ("1.0" :> "V1") @@ ("2.0" :> "V2") @@ ("3.0" :> "V3")

\* a class object, as a value
Class(name) == JVal("class", name, 0, 0)

\* mutant: an unsupported version falls back to the variant of current_api
resolve_model_defaulting(v, abstract) ==
    IF abstract \notin AbstractTypes THEN Raises("ResolveError")
    ELSE IF v \in DOMAIN VersionTag THEN Returns(Class(abstract \o VersionTag[v]))
    ELSE Returns(Class(abstract \o VersionTag["2.0"]))

\* resolve_model(version, abstractType): the variant designated for the
\* pair in the registry; the lookup fails for a pair the registry lacks
resolve_model(v, abstract) ==
    IF v \in DOMAIN VersionTag /\ abstract \in AbstractTypes
    THEN Returns(Class(abstract \o VersionTag[v]))
    ELSE Raises("ResolveError")

\* the order variants
OrderVariants == { resolve_model(v, "Order").val.shape : v \in versions }

\* [x]
ListOf(v) ==
    IF v.t = "inst" THEN JVal("instlist", v.shape, 1, v.id)
    ELSE JVal("nonelist", "", 1, 0)

\* the items of a JSON list: mappings of the list's shape
Item(data) == JVal("dict", data.shape, 0, data.id)

extract_to_model(data, cls, eraise) ==
    IF data.t = "list" THEN
        IF data.len = 0 THEN Returns(JVal("instlist", cls, 0, 0))
        ELSE LET r == from_json(cls, Item(data), eraise) IN
             IF r.exc # "" THEN r
             ELSE IF r.val.t = "inst"
             THEN Returns(JVal("instlist", cls, data.len, r.val.id))
             ELSE Returns(JVal("nonelist", "", data.len, 0))
    ELSE IF data.t = "dict" THEN from_json(cls, data, eraise)
    ELSE IF data.t = "inst" /\ data.shape = cls THEN Returns(data)
    ELSE Returns(None)

\* x[0]
Subscript0(v) ==
    IF v.t = "instlist" /\ v.len > 0 THEN Returns(JVal("inst", v.shape, 0, v.id))
    ELSE IF v.t = "nonelist" /\ v.len > 0 THEN Returns(None)
    ELSE IF v.t \in {"instlist", "nonelist"} THEN Raises("IndexError")
    ELSE Raises("TypeError")

\* the bodies _post can hand back: an order, a rejection {group, message},
\* another mapping, {} (also what _post gives for a body that is no JSON),
\* or a list of these
Bodies ==
    { JVal("dict", sh, 0, 1) : sh \in OrderVariants \cup {"Reject", "Other", "Empty"} }
    \cup { JVal("list", sh, n, 1) : sh \in OrderVariants \cup {"Reject"}, n \in 1..MaxItems }
    \cup { JVal("list", "", 0, 1) }

\* _get, _post: the caller of __request takes r.json() from the response,
\* or {} with a warning when the body is no JSON
ReadBody ==
    /\ qpc = "returned"
    /\ \E b \in Bodies : body' = b
    /\ qpc' = "decoding"
    /\ UNCHANGED <<tries, elapsed, clock, outcomes, result>>
    /\ UNCHANGED <<opc, call, version, self_version, answer>>
    /\ UNCHANGED <<svars, jvars, gvars, hvars, dvars>>

\* version or self.version
Effective(v, self_v) == IF v = "none" THEN self_v ELSE v

place_order(v, self_v, r) ==
    LET rm == resolve_model(Effective(v, self_v), "Order")
        model == rm.val.shape
        first == IF v = "1.0"
                 THEN LET x == from_json(model, r, TRUE) IN
                      IF x.exc # "" THEN x ELSE Returns(ListOf(x.val))
                 ELSE extract_to_model(r, model, TRUE)
    IN  IF rm.exc # "" THEN rm
        ELSE IF first.exc # "RuntimeError" THEN first
        ELSE IF v = "1.0"
        THEN LET y == from_json("Reject", r, TRUE) IN
             IF y.exc # "" THEN y ELSE Returns(ListOf(y.val))
        ELSE extract_to_model(r, "Reject", TRUE)

_modify_order(v, self_v, r) ==
    LET rm == resolve_model(Effective(v, self_v), "Order")
        model == rm.val.shape
        first == from_json(model, r, TRUE)
    IN  IF rm.exc # "" THEN rm
        ELSE IF first.exc \notin {"TypeError", "RuntimeError"} THEN first
        ELSE LET y == extract_to_model(r, "Reject", TRUE) IN
             IF y.exc # "" THEN y ELSE Subscript0(y.val)

\* place_order(order, version): the body has come back from _post
PlaceOrder ==
    /\ opc = "call"
    /\ call = "place_order"
    /\ answer' = place_order(version, self_version, body)
    /\ opc' = "done"
    /\ UNCHANGED <<call, version, self_version, body>>
    /\ UNCHANGED <<svars, jvars, qvars, gvars, hvars, dvars>>

\* cancel_order / replace_order: both are _modify_order
ModifyOrder ==
    /\ opc = "call"
    /\ call \in {"cancel_order", "replace_order"}
    /\ answer' = _modify_order(version, self_version, body)
    /\ opc' = "done"
    /\ UNCHANGED <<call, version, self_version, body>>
    /\ UNCHANGED <<svars, jvars, qvars, gvars, hvars, dvars>>

(***************************************************************************)
(* The calls whose request or result depends on the version: v is the      *)
(* version argument ("none" for None), self_v the client's self.version.   *)
(***************************************************************************)
\* _mk_account(account, version): the key of the account parameter
_mk_account(v) == IF v = "3.0" THEN "accountId" ELSE "account"

\* _mk_symbol(symbol, version): the key of the symbol parameter
_mk_symbol(v) == IF v = "3.0" THEN "symbolId" ELSE "instrument"

\* get_active_orders: the keys of the query, built from the argument
get_active_orders(v, self_v) == Returns(<< _mk_account(v), _mk_symbol(v) >>)

\* get_orders: the key of the query, built from version or self.version
get_orders(v, self_v) == Returns(<< _mk_account(Effective(v, self_v)) >>)

\* get_nearest: raise NotImplemented(...) unless the argument is "1.0" or
\* "2.0" (NotImplemented is not callable: TypeError), then the decode
get_nearest(v, self_v, r) ==
    IF v \notin {"1.0", "2.0"} THEN Raises("TypeError")
    ELSE LET rm == resolve_model(Effective(v, self_v), "Symbol") IN
         IF rm.exc # "" THEN rm ELSE from_json(rm.val.shape, r, TRUE)

VersionedCalls ==
    {"get_active_orders", "get_orders", "get_nearest", "get_trade_stream",
     "get_exec_orders_stream", "place_order"}

\* a call other than place_order: what it sends or returns
VersionedCall ==
    /\ opc = "call"
    /\ call \in VersionedCalls \ {"place_order"}
    /\ answer' =
         IF call = "get_active_orders" THEN get_active_orders(version, self_version)
         ELSE IF call = "get_orders" THEN get_orders(version, self_version)
         ELSE IF call = "get_nearest" THEN get_nearest(version, self_version, body)
         ELSE IF call = "get_trade_stream"
         THEN get_trade_stream(version, self_version)
         ELSE get_exec_orders_stream(version, self_version)
    /\ opc' = "done"
    /\ UNCHANGED <<call, version, self_version, body>>
    /\ UNCHANGED <<svars, jvars, qvars, gvars, hvars, dvars>>

(***************************************************************************)
(* The serializer, field by field.  A value is a record: t is its Python   *)
(* type, a and b its content, items the elements of a list.                *)
(*   "null" None; "bool" a = 1 for True; "int" the integer a;              *)
(*   "float" the binary float a / 2^b; "dec" the Decimal a * 10^-b (b its  *)
(*   number of decimal places, kept as Decimal keeps its exponent);        *)
(*   "numstr" the string that spells the decimal a * 10^-b; "str" a text,  *)
(*   told apart by a; "list" a list of values.                             *)
(***************************************************************************)
V(t, a, b, items) == [t |-> t, a |-> a, b |-> b, items |-> items]

Null == V("null", 0, 0, <<>>)
Bool(x) == V("bool", IF x THEN 1 ELSE 0, 0, <<>>)
IntV(n) == V("int", n, 0, <<>>)
FloatV(m, k) == V("float", m, k, <<>>)
Dec(c, e) == V("dec", c, e, <<>>)
NumStr(c, e) == V("numstr", c, e, <<>>)
Text(id) == V("str", id, 0, <<>>)
ListV(items) == V("list", 0, 0, items)

\* an exception raised from inside a conversion, carried as a value
Err(exc) == V(exc, 0, 0, <<>>)

IsErr(v) == v.t \in {"InvalidOperation", "TypeError", "ValueError"}

\* the mantissa width of the binary floats of the model (53 for a double)
\* and the decimal places a number on the wire has at most
FloatBits == 16
MaxPlaces == 3

\* the length of the wire keys that are enumerated
MaxKeyLen == 4

\* N / D rounded to the nearest integer, ties to even
RoundHalfEven(N, D) ==
    LET q == N \div D
        r == N % D
    IN  IF 2 * r > D \/ (2 * r = D /\ q % 2 = 1) THEN q + 1 ELSE q

\* the binary exponent k that brings c / 10^e, at least 1, into the
\* mantissa range: 2^(FloatBits-1) <= (c / 10^e) * 2^k < 2^FloatBits
RECURSIVE Scale(_, _, _)
Scale(c, e, k) ==
    IF c * 2^k >= 2^(FloatBits - 1) * 10^e THEN k ELSE Scale(c, e, k + 1)

\* float("c.e"): the float nearest to the decimal c * 10^-e, as json.loads
\* (ujson, or the json module) builds it for a number with a fraction
float_of(c, e) ==
    IF c = 0 THEN FloatV(0, 0)
    ELSE LET k == Scale(c, e, 0)
             m == RoundHalfEven(c * 2^k, 10^e)
         IN  IF m = 2^FloatBits THEN FloatV(2^(FloatBits - 1), k - 1)
             ELSE FloatV(m, k)

\* str(value) for a float: the decimal with the fewest places that reads
\* back as the same float, printed with at least one place
RECURSIVE Shortest(_, _)
Shortest(f, q) ==
    LET c == RoundHalfEven(f.a * 10^q, 2^f.b) IN
    IF float_of(c, q) = f
    THEN IF q = 0 THEN NumStr(c * 10, 1) ELSE NumStr(c, q)
    ELSE Shortest(f, q + 1)

str_float(f) == Shortest(f, 0)

\* dc(value): None, Decimal(str(value)) for a float, Decimal(value) else
dc(value) ==
    IF value.t = "null" THEN Null
    ELSE IF value.t = "float"
        THEN LET s == str_float(value) IN Dec(s.a, s.b)
    ELSE IF value.t \in {"int", "bool"} THEN Dec(value.a, 0)
    ELSE IF value.t \in {"dec", "numstr"} THEN Dec(value.a, value.b)
    ELSE IF value.t = "str" THEN Err("InvalidOperation")
    ELSE Err("TypeError")

\* opt_int(i): int(dc(i)), which truncates
opt_int(i) ==
    IF i.t = "null" THEN Null
    ELSE LET d == dc(i) IN
         IF IsErr(d) THEN d ELSE IntV(d.a \div 10^d.b)

(***************************************************************************)
(* Field names and wire keys.  A name is the sequence of its characters:   *)
(* order_id is <<"o", "r", "d", "e", "r", "_", "i", "d">>.                 *)
(***************************************************************************)
Lowers == <<"a", "b", "c", "d", "e", "f", "g", "h", "i", "j", "k", "l", "m",
           "n", "o", "p", "q", "r", "s", "t", "u", "v", "w", "x", "y", "z">>

Uppers == <<"A", "B", "C", "D", "E", "F", "G", "H", "I", "J", "K", "L", "M",
           "N", "O", "P", "Q", "R", "S", "T", "U", "V", "W", "X", "Y", "Z">>

LowerSet == { Lowers[i] : i \in 1..Len(Lowers) }
UpperSet == { Uppers[i] : i \in 1..Len(Uppers) }
DigitSet == {"0", "1", "2", "3", "4", "5", "6", "7", "8", "9"}

\* str.upper and str.lower for one character
upper(c) ==
    IF c \in LowerSet THEN Uppers[CHOOSE i \in 1..Len(Lowers) : Lowers[i] = c]
    ELSE c

lower(c) ==
    IF c \in UpperSet THEN Lowers[CHOOSE i \in 1..Len(Uppers) : Uppers[i] = c]
    ELSE c

reserved ==
    { <<"t", "y", "p", "e">>,
      <<"i", "d">>,
      <<"l", "i", "s", "t">>,
      <<"e", "x", "c", "e", "p", "t">>,
      <<"f", "r", "o", "m">>,
      <<"t", "o">>,
      <<"o", "p", "e", "n">>,
      <<"s", "u", "m">>,
      <<"u", "u", "i", "d">> }

\* inflection.underscore puts an underscore after character i:
\* re.sub(r"([A-Z]+)([A-Z][a-z])", r"\1_\2", word), then
\* re.sub(r"([a-z\d])([A-Z])", r"\1_\2", word)
WordEnds(word, i) ==
    /\ i < Len(word)
    /\ \/ /\ word[i] \in UpperSet
          /\ word[i + 1] \in UpperSet
          /\ i + 2 <= Len(word)
          /\ word[i + 2] \in LowerSet
       \/ /\ word[i] \in LowerSet \cup DigitSet
          /\ word[i + 1] \in UpperSet

RECURSIVE underscore_from(_, _)
underscore_from(word, i) ==
    IF i > Len(word) THEN <<>>
    ELSE << IF word[i] = "-" THEN "_" ELSE lower(word[i]) >>
         \o (IF WordEnds(word, i) THEN << "_" >> ELSE <<>>)
         \o underscore_from(word, i + 1)

\* inflection.underscore(word)
underscore(word) == underscore_from(word, 1)

\* re.sub(r"(?:^|_)(.)", lambda m: m.group(1).upper(), string), past the
\* first character
RECURSIVE camelize_rest(_)
camelize_rest(rest) ==
    IF rest = <<>> THEN <<>>
    ELSE IF rest[1] = "_" /\ Len(rest) >= 2
    THEN << upper(rest[2]) >> \o camelize_rest(SubSeq(rest, 3, Len(rest)))
    ELSE << rest[1] >> \o camelize_rest(Tail(rest))

\* string[0] of the empty string
IndexError == << "IndexError" >>

\* inflection.camelize(string, uppercase_first_letter)
camelize(string, uppercase_first_letter) ==
    IF string = <<>>
    THEN IF uppercase_first_letter THEN <<>> ELSE IndexError
    ELSE << IF uppercase_first_letter THEN upper(string[1]) ELSE lower(string[1]) >>
         \o camelize_rest(Tail(string))

\* camel(s): a trailing underscore is dropped, the rest camelized
camel(s) ==
    IF s # <<>> /\ s[Len(s)] = "_"
    THEN camelize(SubSeq(s, 1, Len(s) - 1), FALSE)
    ELSE camelize(s, FALSE)

\* mutant: a reserved word is left without its underscore
make_key_unreserved(key) == underscore(key)

\* from_json.make_key
make_key(key) ==
    LET k == underscore(key) IN
    IF k \in reserved THEN k \o << "_" >> ELSE k

(***************************************************************************)
(* Schema variants at the level of fields: the fields of each, in the      *)
(* order its constructor assigns them, each with the conversion the        *)
(* constructor applies to it.                                              *)
(***************************************************************************)
Fields(cls) ==
    IF cls = "Reject"
    THEN << [name |-> <<"g", "r", "o", "u", "p">>, type |-> "str"],
            [name |-> <<"m", "e", "s", "s", "a", "g", "e">>, type |-> "str"] >>
    ELSE << [name |-> <<"s", "y", "m", "b", "o", "l", "_", "i", "d">>, type |-> "str"],
            [name |-> <<"t", "y", "p", "e", "_">>, type |-> "str"],
            [name |-> <<"p", "r", "i", "c", "e">>, type |-> "decimal"],
            [name |-> <<"s", "i", "z", "e">>, type |-> "int"],
            [name |-> <<"a", "c", "t", "i", "v", "e">>, type |-> "flag"],
            [name |-> <<"l", "e", "g", "s">>, type |-> "list"] >>

FieldNames(cls) == { Fields(cls)[j].name : j \in 1..Len(Fields(cls)) }

\* the conversion of a constructor argument into the field
Convert(type, v) ==
    IF type = "decimal" THEN dc(v)
    ELSE IF type = "int" THEN opt_int(v)
    ELSE v

ModelInstance(cls, vals) == [t |-> "inst", cls |-> cls, vals |-> vals]

\* what a call leaves behind: the exception it raised ("" if none), the
\* value it returned (for an exception, its message), the warnings emitted
Out(exc, val, warned) == [exc |-> exc, val |-> val, warned |-> warned]

\* cls(**data): TypeError unless the keywords are the parameters
ModelInit(cls, data) ==
    LET keys == { data[i].k : i \in 1..Len(data) }
        arg(n) == data[CHOOSE i \in 1..Len(data) : data[i].k = n].v
        vals == [ j \in 1..Len(Fields(cls)) |->
                    Convert(Fields(cls)[j].type, arg(Fields(cls)[j].name)) ]
        bad == { j \in 1..Len(Fields(cls)) : IsErr(vals[j]) }
    IN  IF keys # FieldNames(cls) \/ Len(data) # Len(Fields(cls))
        THEN Out("TypeError", Null, <<>>)
        ELSE IF bad # {} THEN Out(vals[CHOOSE j \in bad : TRUE].t, Null, <<>>)
        ELSE Out("", ModelInstance(cls, vals), <<>>)

\* cls(**cls._empty_init())
EmptyModel(cls) == ModelInstance(cls, [ j \in 1..Len(Fields(cls)) |-> Null ])

\* 'could not get {} from {} as {}'.format(cls, type(obj), obj)
Message(cls, obj) == [cls |-> cls, payload |-> obj]

\* mutant: strict whatever the caller asked for
from_json_dict_strict(cls, obj, eraise) ==
    LET data == [ i \in 1..Len(obj) |->
                    [k |-> make_key(obj[i].k),
                     v |-> IF obj[i].v.t \in {"int", "float", "dec"}
                           THEN dc(obj[i].v) ELSE obj[i].v] ]
        r == ModelInit(cls, data)
    IN  IF obj = <<>> THEN Out("", EmptyModel(cls), <<>>)
        ELSE IF r.exc # "TypeError" THEN r
        ELSE Out("RuntimeError", Message(cls, obj), <<>>)

\* from_json for a mapping, given as its (key, value) pairs in order
from_json_dict(cls, obj, eraise) ==
    LET data == [ i \in 1..Len(obj) |->
                    [k |-> make_key(obj[i].k),
                     v |-> IF obj[i].v.t \in {"int", "float", "dec"}
                           THEN dc(obj[i].v) ELSE obj[i].v] ]
        r == ModelInit(cls, data)
    IN  IF obj = <<>> THEN Out("", EmptyModel(cls), <<>>)
        ELSE IF r.exc # "TypeError" THEN r
        ELSE IF eraise THEN Out("RuntimeError", Message(cls, obj), <<>>)
        ELSE Out("", Null, << Message(cls, obj) >>)

\* [obj.from_json(item, eraise) for item in data]: the first exception
\* ends the comprehension, the warnings add up
RECURSIVE extract_list(_, _, _)
extract_list(cls, data, eraise) ==
    IF data = <<>> THEN Out("", <<>>, <<>>)
    ELSE LET x == from_json_dict(cls, Head(data), eraise)
             rest == extract_list(cls, Tail(data), eraise)
         IN  IF x.exc # "" THEN x
             ELSE IF rest.exc # "" THEN Out(rest.exc, rest.val, x.warned)
             ELSE Out("", <<x.val>> \o rest.val, x.warned \o rest.warned)

\* a nested mapping: its (key, value) pairs in order
DictV(pairs) == V("dict", 0, 0, pairs)

\* the container keeps the value: (not keep_null and value is not None)
\* or keep_null
Kept(value, keep_null) == keep_null \/ value # Null

\* mutant: the entries of a sequence are encoded as they are, None or not
RECURSIVE __dict_keeping_items(_, _)
__dict_keeping_items(obj, keep_null) ==
    IF obj.t = "dict"
    THEN LET kept == SelectSeq(obj.items, LAMBDA q : Kept(q.v, keep_null))
         IN  DictV([ i \in 1..Len(kept) |->
                       [k |-> kept[i].k,
                        v |-> __dict_keeping_items(kept[i].v, keep_null)] ])
    ELSE IF obj.t = "dec" THEN NumStr(obj.a, obj.b)
    ELSE IF obj.t = "list"
    THEN ListV([ i \in 1..Len(obj.items) |->
                   __dict_keeping_items(obj.items[i], keep_null) ])
    ELSE IF obj.t = "inst"
    THEN LET js == SelectSeq([ j \in 1..Len(obj.vals) |-> j ],
                             LAMBDA j : Kept(obj.vals[j], keep_null))
         IN  DictV([ i \in 1..Len(js) |->
                       [k |-> camel(Fields(obj.cls)[js[i]].name),
                        v |-> __dict_keeping_items(obj.vals[js[i]], keep_null)] ])
    ELSE obj

\* BaseSerializable.__dict: a mapping, a Decimal, a sequence, an object
\* with __dict__ (a model), anything else
RECURSIVE __dict(_, _)
__dict(obj, keep_null) ==
    IF obj.t = "dict"
    THEN LET kept == SelectSeq(obj.items, LAMBDA q : Kept(q.v, keep_null))
         IN  DictV([ i \in 1..Len(kept) |->
                       [k |-> kept[i].k, v |-> __dict(kept[i].v, keep_null)] ])
    ELSE IF obj.t = "dec" THEN NumStr(obj.a, obj.b)
    ELSE IF obj.t = "list"
    THEN LET kept == SelectSeq(obj.items, LAMBDA v : Kept(v, keep_null))
         IN  ListV([ i \in 1..Len(kept) |-> __dict(kept[i], keep_null) ])
    ELSE IF obj.t = "inst"
    THEN LET js == SelectSeq([ j \in 1..Len(obj.vals) |-> j ],
                             LAMBDA j : Kept(obj.vals[j], keep_null))
         IN  DictV([ i \in 1..Len(js) |->
                       [k |-> camel(Fields(obj.cls)[js[i]].name),
                        v |-> __dict(obj.vals[js[i]], keep_null)] ])
    ELSE obj

\* to_json(keep_null): the pairs of the mapping, in the order of __dict__
to_json(x, keep_null) == __dict(x, keep_null).items

\* DeepDiff(t1, t2, ignore_order=True) of two mappings: the keys under
\* which they differ.  Two lists differ when their sets of items differ.
DeepDiff(t1, t2) ==
    LET keys(t) == { t[i].k : i \in 1..Len(t) }
        at(t, k) == t[CHOOSE i \in 1..Len(t) : t[i].k = k].v
        same(u, v) ==
            IF u.t = "list" /\ v.t = "list"
            THEN { u.items[i] : i \in 1..Len(u.items) }
                 = { v.items[i] : i \in 1..Len(v.items) }
            ELSE u = v
    IN  { k \in keys(t1) \cup keys(t2) :
            \/ k \notin keys(t1)
            \/ k \notin keys(t2)
            \/ ~same(at(t1, k), at(t2, k)) }

\* mutant: a value that is no model compares unequal
__eq__or_false(self, other) ==
    IF other.t = "inst"
    THEN Out("", Bool(DeepDiff(to_json(self, TRUE), to_json(other, TRUE)) = {}), <<>>)
    ELSE Out("", Bool(FALSE), <<>>)

\* BaseSerializable.__eq__
__eq__(self, other) ==
    IF other.t = "inst"
    THEN Out("", Bool(DeepDiff(to_json(self, TRUE), to_json(other, TRUE)) = {}), <<>>)
    ELSE Out("ValueError", Null, <<>>)

(***************************************************************************)
(* The calls made on the serializer.  Each input is one call: its          *)
(* operation and its arguments.                                            *)
(***************************************************************************)
NoOutput == Out("", Null, <<>>)

Legs ==
    { Null, ListV(<<>>), ListV(<<Text(1), Text(2)>>), ListV(<<Text(2), Text(1)>>),
      ListV(<<Text(1), Text(1), Text(2)>>), ListV(<<Text(1), Null>>) }

\* the keyword arguments a caller builds an instance from
InitArgs(cls) ==
    IF cls = "Reject"
    THEN { << [k |-> Fields(cls)[1].name, v |-> g],
              [k |-> Fields(cls)[2].name, v |-> m] >> :
             g \in {Null, Text(1)}, m \in {Null, Text(2)} }
    ELSE { << [k |-> Fields(cls)[1].name, v |-> s],
              [k |-> Fields(cls)[2].name, v |-> t],
              [k |-> Fields(cls)[3].name, v |-> p],
              [k |-> Fields(cls)[4].name, v |-> n],
              [k |-> Fields(cls)[5].name, v |-> a],
              [k |-> Fields(cls)[6].name, v |-> l] >> :
             s \in {Null, Text(1)}, t \in {Null, Text(2)},
             p \in {Null, NumStr(50375, 2), NumStr(150, 2), IntV(5)},
             n \in {Null, IntV(7)}, a \in {Null, Bool(TRUE)}, l \in Legs }

FieldClasses == {"Model", "Reject"}

Instances(cls) == { ModelInit(cls, args).val : args \in InitArgs(cls) }

AllInstances == UNION { Instances(cls) : cls \in FieldClasses }

\* values without the __model__ marker
NonModels ==
    { Null, Text(1), IntV(1), Bool(FALSE), ListV(<<>>), V("dict", 0, 0, <<>>) }

\* the fields in which two instances of one class differ
Differing(x, y) == { j \in 1..Len(x.vals) : x.vals[j] # y.vals[j] }

\* a JSON object with its members in another order
Permute(obj, how) ==
    IF how = "reversed" THEN [ i \in 1..Len(obj) |-> obj[Len(obj) + 1 - i] ]
    ELSE IF how = "rotated" /\ obj # <<>> THEN Tail(obj) \o << Head(obj) >>
    ELSE obj

\* the number c * 10^-e as response.json() hands it over: an int when the
\* literal has no fraction, the nearest float when it has one
json_number(c, e) == IF e = 0 THEN IntV(c) ELSE float_of(c, e)

Coefficients == {1, 15, 150, 1001, 50375, 503751, 2047999}

\* number literals on the wire: at most MaxPlaces places, and with a
\* fraction only values from 1 up to the range of the mantissa
WireNumbers ==
    { n \in [c : Coefficients, e : 0..MaxPlaces] :
        n.e > 0 => (10^n.e <= n.c /\ n.c < 2^(FloatBits - 5) * 10^n.e) }

\* the mappings handed to a decode: encodings of instances, an encoding
\* with the unset fields left out, and one with a key no variant has
SampleMappings ==
    LET x == ModelInit("Model", CHOOSE a \in InitArgs("Model") :
                 \A i \in 1..Len(a) : a[i].v \notin {Null, ListV(<<>>)}).val
        y == ModelInit("Model", CHOOSE a \in InitArgs("Model") :
                 a[1].v = Null /\ \A i \in 2..Len(a) : a[i].v # Null).val
        r == ModelInit("Reject", CHOOSE a \in InitArgs("Reject") :
                 \A i \in 1..Len(a) : a[i].v # Null).val
    IN  { to_json(x, TRUE), to_json(y, TRUE), to_json(y, FALSE), to_json(r, TRUE),
          to_json(r, TRUE) \o << [k |-> <<"e", "x", "t", "r", "a">>, v |-> Text(1)] >> }

MappingLists ==
    UNION { [1..n -> SampleMappings] : n \in 0..MaxItems }

\* values with something nested: a sequence with None entries, a mapping
\* with a None value, a model with unset fields, and these inside a list
NestedValues ==
    LET d == DictV(<< [k |-> <<"x">>, v |-> Null], [k |-> <<"y">>, v |-> Text(1)] >>)
        m == ModelInstance("Reject", << Null, Text(2) >>)
    IN  { Null, ListV(<<>>), ListV(<< Text(1), Text(2) >>),
          ListV(<< Text(1), Null >>), ListV(<< Null >>), d, m,
          ListV(<< m, ListV(<< Null, IntV(1) >>) >>), ListV(<< d >>) }

\* the instances handed to to_json: fields set and unset, the last one
\* holding a nested value
EncodeInstances ==
    { ModelInstance("Model", << s, t, p, Null, a, l >>) :
        s \in {Null, Text(1)}, t \in {Null, Text(2)}, p \in {Null, Dec(150, 2)},
        a \in {Null, Bool(FALSE)}, l \in NestedValues }

\* the characters of the enumerated wire keys: lower case, upper case,
\* a digit, the underscore
KeyChars == {"i", "d", "I", "D", "1", "_"}

\* keys on the wire: every key of up to MaxKeyLen of these characters, and
\* the reserved words
WireKeys ==
    UNION { [1..n -> KeyChars] : n \in 1..MaxKeyLen } \cup reserved

ShapeInputs ==
    {None} \cup Bodies
    \cup { JVal("list", "Empty", n, 1) : n \in 1..MaxItems }
    \cup { JVal("inst", sh, 0, 1) : sh \in OrderVariants \cup {"Reject"} }
    \cup { JVal("scalar", "", 0, 1) }              \* a string or a number

Inputs ==
    { [op |-> "from_json", cls |-> c, obj |-> o, eraise |-> e] :
        c \in OrderVariants \cup {"Reject"}, o \in ShapeInputs, e \in BOOLEAN }
    \cup { [op |-> "extract_to_model", ecls |-> c, data |-> o, estrict |-> e] :
        c \in OrderVariants \cup {"Reject"}, o \in ShapeInputs, e \in BOOLEAN }
    \cup { [op |-> "decode_list", lcls |-> c, items |-> l, lstrict |-> e] :
        c \in FieldClasses, l \in MappingLists, e \in BOOLEAN }
    \cup { [op |-> "round_trip", x |-> x] : x \in AllInstances }
    \cup { [op |-> "eq", left |-> pr[1], right |-> pr[2]] :
        pr \in { q \in AllInstances \X (AllInstances \cup NonModels) :
                   q[2] \in AllInstances =>
                     /\ q[1].cls = q[2].cls
                     /\ Cardinality(Differing(q[1], q[2])) <= 1 } }
    \cup { [op |-> "eq_decoded", mapping |-> to_json(x, TRUE), how |-> h] :
        x \in AllInstances, h \in {"same", "reversed", "rotated"} }
    \cup { [op |-> "number", lit |-> n, quoted |-> q, flag |-> f] :
        n \in WireNumbers, q \in BOOLEAN, f \in BOOLEAN }
    \cup { [op |-> "resolve_model", rversion |-> v, abstract |-> a] :
        v \in versions \cup {"4.0", "none"}, a \in AbstractTypes }
    \cup { [op |-> "key", key |-> k] : k \in WireKeys }
    \cup { [op |-> "to_json", self |-> x] : x \in EncodeInstances }

\* the JSON object of a number call: the number as the price, the boolean
\* as the flag, the other fields null
NumberMapping(i) ==
    [ j \in 1..Len(Fields("Model")) |->
        [k |-> camel(Fields("Model")[j].name),
         v |-> IF j = 3
               THEN IF i.quoted THEN NumStr(i.lit.c, i.lit.e)
                    ELSE json_number(i.lit.c, i.lit.e)
               ELSE IF j = 5 THEN Bool(i.flag)
               ELSE Null] ]

\* cls.from_json(obj, eraise) on a value given by its shape
Decode ==
    /\ dpc = "input"
    /\ din.op = "from_json"
    /\ LET r == from_json(din.cls, din.obj, din.eraise) IN
       dout' = Out(r.exc, r.val, <<>>)
    /\ dpc' = "done"
    /\ UNCHANGED <<din, svars, jvars, qvars, ovars, gvars, hvars>>

\* extract_to_model(data, cls, eraise) on a value given by its shape
Extract ==
    /\ dpc = "input"
    /\ din.op = "extract_to_model"
    /\ LET r == extract_to_model(din.data, din.ecls, din.estrict) IN
       dout' = Out(r.exc, r.val, <<>>)
    /\ dpc' = "done"
    /\ UNCHANGED <<din, svars, jvars, qvars, ovars, gvars, hvars>>

\* extract_to_model(data, cls, eraise) on a list of mappings
DecodeList ==
    /\ dpc = "input"
    /\ din.op = "decode_list"
    /\ dout' = extract_list(din.lcls, din.items, din.lstrict)
    /\ dpc' = "done"
    /\ UNCHANGED <<din, svars, jvars, qvars, ovars, gvars, hvars>>

\* type(x).from_json(x.to_json(keep_null=True))
RoundTrip ==
    /\ dpc = "input"
    /\ din.op = "round_trip"
    /\ dout' = from_json_dict(din.x.cls, to_json(din.x, TRUE), TRUE)
    /\ dpc' = "done"
    /\ UNCHANGED <<din, svars, jvars, qvars, ovars, gvars, hvars>>

\* left == right
Compare ==
    /\ dpc = "input"
    /\ din.op = "eq"
    /\ dout' = __eq__(din.left, din.right)
    /\ dpc' = "done"
    /\ UNCHANGED <<din, svars, jvars, qvars, ovars, gvars, hvars>>

\* cls.from_json(a) == cls.from_json(b), b being a in another key order
CompareDecoded ==
    /\ dpc = "input"
    /\ din.op = "eq_decoded"
    /\ LET cls == IF Len(din.mapping) = Len(Fields("Reject"))
                  THEN "Reject" ELSE "Model"
           a == from_json_dict(cls, din.mapping, TRUE)
           b == from_json_dict(cls, Permute(din.mapping, din.how), TRUE)
       IN  dout' = IF a.exc # "" THEN a
                   ELSE IF b.exc # "" THEN b
                   ELSE __eq__(a.val, b.val)
    /\ dpc' = "done"
    /\ UNCHANGED <<din, svars, jvars, qvars, ovars, gvars, hvars>>

\* cls.from_json(response.json()) for an object carrying a number
DecodeNumber ==
    /\ dpc = "input"
    /\ din.op = "number"
    /\ dout' = from_json_dict("Model", NumberMapping(din), TRUE)
    /\ dpc' = "done"
    /\ UNCHANGED <<din, svars, jvars, qvars, ovars, gvars, hvars>>

\* a key met by from_json, and the key to_json writes for the field
ConvertKey ==
    /\ dpc = "input"
    /\ din.op = "key"
    /\ LET field == make_key(din.key) IN
       dout' = Out("", [field |-> field, wire |-> camel(field)], <<>>)
    /\ dpc' = "done"
    /\ UNCHANGED <<din, svars, jvars, qvars, ovars, gvars, hvars>>

\* x.to_json() and x.to_json(keep_null=True)
Encode ==
    /\ dpc = "input"
    /\ din.op = "to_json"
    /\ dout' = Out("", [lean |-> to_json(din.self, FALSE),
                        full |-> to_json(din.self, TRUE)], <<>>)
    /\ dpc' = "done"
    /\ UNCHANGED <<din, svars, jvars, qvars, ovars, gvars, hvars>>

\* resolve_model(version, abstract)
Resolve ==
    /\ dpc = "input"
    /\ din.op = "resolve_model"
    /\ LET r == resolve_model(din.rversion, din.abstract) IN
       dout' = Out(r.exc, r.val, <<>>)
    /\ dpc' = "done"
    /\ UNCHANGED <<din, svars, jvars, qvars, ovars, gvars, hvars>>

(***************************************************************************)
(* HTTPApi.__init__                                                        *)
(***************************************************************************)
\* the arguments of HTTPApi(...): the auth method, the version, and whether
\* each credential is given (a value that is not None, "", 0 or empty)
ClientArgs ==
    [auth : {"BASIC", "JWT", "other"}, version : versions \cup {"4.0"},
     appid : BOOLEAN, acckey : BOOLEAN, clientid : BOOLEAN,
     sharedkey : BOOLEAN, ttl : BOOLEAN, scopes : BOOLEAN]

NoArgs == [auth |-> "", version |-> "", appid |-> FALSE, acckey |-> FALSE,
           clientid |-> FALSE, sharedkey |-> FALSE, ttl |-> FALSE,
           scopes |-> FALSE]

\* self.auth has not been assigned
NoAuth == [kind |-> "unset", given |-> {}]

\* HTTPBasicAuth(appid, acckey)
HTTPBasicAuth(a) ==
    [kind |-> "HTTPBasicAuth",
     given |-> { f \in {"appid", "acckey"} : a[f] }]

\* JWTAuth(appid, clientid, sharedkey, ttl, scopes)
JWTAuth(a) ==
    [kind |-> "JWTAuth",
     given |-> { f \in {"appid", "clientid", "sharedkey", "ttl", "scopes"} : a[f] }]

\* what the constructor leaves: the exception raised ("" if none) and the
\* fields assigned before it
Built(exc, v, auth) == [exc |-> exc, version |-> v, auth |-> auth]

\* mutant: the JWT branch tests the application id only
HTTPApi_init_LaxJWT(a) ==
    IF a.version \notin versions THEN Built("ValueError", "unset", NoAuth)
    ELSE IF a.auth = "BASIC" THEN
        IF a.appid /\ a.acckey THEN Built("", a.version, HTTPBasicAuth(a))
        ELSE Built("ValueError", a.version, NoAuth)
    ELSE IF a.auth = "JWT" THEN
        IF a.appid THEN Built("", a.version, JWTAuth(a))
        ELSE Built("ValueError", a.version, NoAuth)
    ELSE Built("Exception", a.version, NoAuth)

\* HTTPApi.__init__, up to the last raise
HTTPApi_init(a) ==
    IF a.version \notin versions THEN Built("ValueError", "unset", NoAuth)
    ELSE IF a.auth = "BASIC" THEN
        IF a.appid /\ a.acckey THEN Built("", a.version, HTTPBasicAuth(a))
        ELSE Built("ValueError", a.version, NoAuth)
    ELSE IF a.auth = "JWT" THEN
        IF a.appid /\ a.clientid /\ a.sharedkey /\ a.ttl /\ a.scopes
        THEN Built("", a.version, JWTAuth(a))
        ELSE Built("ValueError", a.version, NoAuth)
    ELSE Built("Exception", a.version, NoAuth)

\* the credentials the auth object needs to authorise a request
Needed(auth) ==
    IF auth.kind = "HTTPBasicAuth" THEN {"appid", "acckey"}
    ELSE {"appid", "clientid", "sharedkey", "ttl", "scopes"}

\* a call of the client, such as get_symbols(version): the model is
\* resolved for version or self.version, then the request goes out with
\* auth=self.auth
api_call(v, self_v, auth) ==
    LET rm == resolve_model(Effective(v, self_v), "Symbol") IN
    IF rm.exc # "" THEN rm
    ELSE IF auth.kind = "unset" THEN Raises("AttributeError")
    ELSE IF auth.given # Needed(auth) THEN Raises("Unauthorized")
    ELSE Returns(rm.val)

\* HTTPApi(...): the constructor runs; in the JWT branch JWTAuth.__init__
\* runs inside it and starts the rotation thread
InitClient ==
    /\ hpc = "new"
    /\ LET r == HTTPApi_init(hargs) IN
          /\ self_version' = r.version
          /\ self_auth' = r.auth
          /\ hpc' = IF r.exc = "" THEN "constructed" ELSE r.exc
          /\ IF r.auth.kind = "JWTAuth"
             THEN /\ token' = TokenAtInit
                  /\ jpc' = StartedAt
                  /\ cpc' = "returned"
             ELSE UNCHANGED <<token, jpc, cpc>>
    /\ UNCHANGED <<hargs, opc, call, version, body, answer>>
    /\ UNCHANGED <<ttl, jnow, slept, now, sent>>
    /\ UNCHANGED <<svars, qvars, gvars, dvars>>

\* a call on the constructed client, with or without a version argument
ApiCall ==
    /\ hpc = "constructed"
    /\ opc = "idle"
    /\ \E v \in versions \cup {"none"} :
          /\ version' = v
          /\ answer' = api_call(v, self_version, self_auth)
    /\ opc' = "done"
    /\ UNCHANGED <<call, self_version, body>>
    /\ UNCHANGED <<svars, jvars, qvars, gvars, hvars, dvars>>

NoInput == [op |-> ""]

(***************************************************************************)
(* Readings of the stream histories the properties below share.            *)
(***************************************************************************)
\* the lines whose pass of the for loop is over: all but one in flight
Settled == IF rpc = "line" THEN SubSeq(received, 1, Len(received) - 1)
           ELSE received

HandledLines == SubSeq(received, 1, handled)

\* the value of line m that the subscription decodes: the payload under
\* the filter's key, or the whole object when there is no filter
Decoded(m, filter) ==
    IF filter = "none" THEN json_loads(m).val ELSE GetItem(m, filter).val

\* line m is JSON, passes the filter and its decode does not fail
Delivers(m, filter) ==
    /\ m.kind # "invalid"
    /\ filter # "none" => (m.kind = "dict" /\ m.event = filter /\ m.payload # "absent")
    /\ from_json(StreamModel, Decoded(m, filter), TRUE).exc = ""

RECURSIVE Decodes(_, _)
Decodes(lines, filter) ==
    IF lines = <<>> THEN <<>>
    ELSE LET m == lines[Len(lines)]
             rest == Decodes(SubSeq(lines, 1, Len(lines) - 1), filter)
         IN IF Delivers(m, filter)
            THEN Append(rest, from_json(StreamModel, Decoded(m, filter), TRUE).val)
            ELSE rest

\* the queue holds the objects put and not yet taken, oldest first
QueueIsTailOfPuts ==
    /\ Len(queue) <= Len(putlog)
    /\ queue = SubSeq(putlog, Len(putlog) - Len(queue) + 1, Len(putlog))

(***************************************************************************)
(* C1: before stop() is called, the objects put on the queue are, in       *)
(* order, without duplicate or omission, the decodes of the lines received *)
(* so far (all but one still in flight) that parse and pass the event      *)
(* filter; nothing put is discarded, however few get() calls were made.    *)
(***************************************************************************)
C1_PutsAreDecodesInOrder ==
    ~is_finished =>
        /\ handled = Len(Settled)
        /\ putlog = Decodes(Settled, event_filter)
        /\ QueueIsTailOfPuts

\* two lines decoded and put, the first already taken by the consumer, on
\* the second connection of the subscription
C1_Witness ==
    /\ ~is_finished
    /\ rpc = "iter"
    /\ conns = 2
    /\ Len(putlog) = 2
    /\ Len(queue) = 1
    /\ putlog[1] # putlog[2]

\* the decodes of the payloads of the lines whose event is the filter's
RECURSIVE PayloadsOfEvent(_, _)
PayloadsOfEvent(lines, filter) ==
    IF lines = <<>> THEN <<>>
    ELSE LET m == lines[Len(lines)]
             rest == PayloadsOfEvent(SubSeq(lines, 1, Len(lines) - 1), filter)
         IN IF m.kind = "dict" /\ m.event = filter
            THEN Append(rest, from_json(StreamModel, Decoded(m, filter), TRUE).val)
            ELSE rest

(***************************************************************************)
(* C2 as stated: with an event filter F, an object is put for a line if    *)
(* and only if the line's event equals F, and it is the decode of the F    *)
(* payload, in the lines' order.  Stated for the runs in which no          *)
(* exception has ended the reader thread.                                  *)
(***************************************************************************)
C2_PutIffEventMatches ==
    (event_filter # "none" /\ rpc # "dead") =>
        putlog = PayloadsOfEvent(Settled, event_filter)

(***************************************************************************)
(* C2 amended: with an event filter F, for the lines whose loop body has   *)
(* run (the stop flag was unset), an object is put for a line if and only  *)
(* if the line is a JSON object whose event equals F, that has the F       *)
(* payload, and whose payload from_json accepts; the object put is         *)
(* from_json's result for the payload, never for the envelope; the puts    *)
(* keep the lines' order; a heartbeat line puts nothing.                   *)
(***************************************************************************)
C2_PutIffEventMatchesAndDecodes ==
    event_filter # "none" =>
        /\ putlog = Decodes(HandledLines, event_filter)
        /\ \A i \in 1..Len(putlog) : putlog[i].id <= 0
        /\ \A i \in 1..handled :
              received[i].event = "heartbeat" =>
                  \A j \in 1..Len(putlog) : putlog[j].id # 0 - i

\* a heartbeat, then an order whose payload the model accepts: one object
C2_Witness ==
    /\ event_filter = "order"
    /\ handled = 2
    /\ received[1].event = "heartbeat"
    /\ received[2].event = "order" /\ received[2].payload = "Order"
    /\ putlog = <<JVal("inst", StreamModel, 0, 0 - 2)>>

(***************************************************************************)
(* C3 as stated: while stop() has not been called the reader thread never  *)
(* terminates.                                                             *)
(***************************************************************************)
C3_ReaderRunsUntilStop ==
    ~is_finished => rpc \notin {"done", "dead"}

(***************************************************************************)
(* C4 as stated: when a connection ends and stop() has not been called,    *)
(* the reader is back at the head of its loop, about to issue a new GET,   *)
(* with the objects queued so far untouched.                               *)
(***************************************************************************)
C4_DropLeadsToReconnect ==
    [][(drops' > drops /\ ~is_finished')
          => (rpc' = "while" /\ putlog' = putlog /\ queue' = queue)]_vars

(***************************************************************************)
(* C5 as stated: a line that is not valid JSON puts nothing on the queue   *)
(* and does not terminate the reader thread.                               *)
(***************************************************************************)
C5_InvalidLineIsSkipped ==
    \A i \in 1..handled :
        received[i].kind = "invalid" =>
            /\ \A j \in 1..Len(putlog) : putlog[j].id \notin {i, 0 - i}
            /\ ~(rpc = "dead" /\ handled = i /\ cause = "JSONDecodeError")

(***************************************************************************)
(* C6: once stop() has set the flag, stop() returns, and the reader thread *)
(* has ended when it does, wherever the reader was when the flag was set.  *)
(***************************************************************************)
C6_StopReturnsWithReaderEnded ==
    /\ (spc = "join") ~> (spc = "returned")
    /\ [](spc = "returned" => rpc \in {"done", "dead"})

\* stop() has returned after the flag made the reader leave a line unhandled:
\* the reader was in a read, or held a line, when stop() was called
C6_Witness ==
    /\ spc = "returned"
    /\ rpc = "done"
    /\ handled < Len(received)

(***************************************************************************)
(* C7 as stated: once the JWTAuth constructor has returned the token is a  *)
(* generated token, and no request carries "Bearer None".                  *)
(***************************************************************************)
C7_TokenSetWhenConstructed ==
    /\ cpc = "returned" => token # NoToken
    /\ sent.header # "Bearer None"

\* the rotation thread has nothing to do: it sleeps and its sleep is not over
RotationUpToDate == jpc = "sleep" /\ now <= WakeTime

(***************************************************************************)
(* C8 as stated: after construction the token a request would read         *)
(* expires strictly later than the current time.  Stated for the moments   *)
(* at which the rotation thread is not late: it sleeps, and the time its   *)
(* sleep ends has not passed.                                              *)
(***************************************************************************)
C8_TokenExpiryInFuture ==
    (cpc = "returned" /\ RotationUpToDate) => token.exp > now

(***************************************************************************)
(* C9: one REST call makes at most 5 attempts; an attempt after the first  *)
(* is made only after the one before raised a connection error or a        *)
(* timeout; a call that is retried has budget left (fewer than 5 tries,    *)
(* under 60 s at its last try), and when the budget is exhausted by such   *)
(* an exception the call raises it instead of returning a result.          *)
(***************************************************************************)
C9_BoundedRetries ==
    /\ Len(outcomes) <= max_tries
    /\ tries = Len(outcomes)
    /\ \A k \in 1..(Len(outcomes) - 1) : outcomes[k] \in Retryable
    /\ qpc \in {"sleep", "try"} /\ tries > 0 =>
          /\ outcomes[tries] \in Retryable
          /\ tries < max_tries
          /\ elapsed < max_time
    /\ qpc = "raised" => result = outcomes[tries] /\ result \notin Responses
    /\ qpc = "returned" => result \in Responses /\ outcomes[tries] = result
    /\ (qpc \in {"returned", "raised", "sleep"} /\ outcomes[tries] \in Retryable
          /\ (tries = max_tries \/ elapsed >= max_time)) => qpc = "raised"

\* the fifth attempt timed out and the caller got the exception
C9_Witness ==
    /\ qpc = "raised"
    /\ tries = max_tries
    /\ result = "ReadTimeout"
    /\ elapsed < max_time

\* the body has the rejection shape: {group, message} or a list of them
IsRejection(r) == r.shape = "Reject" /\ r.t \in {"dict", "list"}

\* a Reject object, or a list of Reject objects
IsRejects(v) ==
    \/ v.t = "inst" /\ v.shape = "Reject"
    \/ v.t = "instlist" /\ v.shape = "Reject" /\ v.len > 0

(***************************************************************************)
(* C10 as stated: when the response body of place_order, cancel_order or   *)
(* replace_order has the rejection shape, the call raises nothing and      *)
(* returns Reject object(s) decoded from the body: never an order, never   *)
(* None.  Stated for the calls whose version argument is not "1.0".        *)
(***************************************************************************)
C10_RejectionIsReturnedAsReject ==
    (opc = "done" /\ IsRejection(body) /\ version # "1.0") =>
        /\ answer.exc = ""
        /\ IsRejects(answer.val)
        /\ answer.val.id = body.id

\* a step of the consumer: a get() call is made, or one that waited ends
ConsumerStep == gpc' # gpc \/ gcall' # gcall \/ ret' # ret \/ taken' # taken

(***************************************************************************)
(* C11: a get() step that finds the queue non-empty removes and returns    *)
(* its oldest object; one that finds it empty leaves it alone and, at once *)
(* when block is false or at the end of the wait when block is true,       *)
(* returns None if eraise is false and raises Empty if eraise is true; the *)
(* objects returned followed by the objects queued are the objects put, so *)
(* an object is returned by at most one call.                              *)
(***************************************************************************)
C11_GetTakesOldestOrReportsEmpty ==
    /\ [](taken \o queue = putlog)
    /\ [][ConsumerStep =>
            IF queue # <<>>
            THEN /\ ret' = Returns(Head(queue))
                 /\ queue' = Tail(queue)
                 /\ taken' = Append(taken, Head(queue))
                 /\ gpc' = "idle"
            ELSE /\ queue' = queue
                 /\ taken' = taken
                 /\ IF gcall'.block /\ gpc = "idle"
                    THEN gpc' = "waiting" /\ ret' = ret
                    ELSE /\ gpc' = "idle"
                         /\ ret' = IF gcall'.eraise THEN Raises("Empty")
                                                    ELSE Returns(None)]_vars

\* the consumer has been given the first object put and waits, in a
\* blocking call that raises on timeout, for the second
C11_Witness ==
    /\ gpc = "waiting"
    /\ gcall = [block |-> TRUE, eraise |-> TRUE]
    /\ Len(putlog) = 1
    /\ taken = putlog
    /\ ret = Returns(putlog[1])

\* the lines, among those the loop body has run for, that are no heartbeat
NonHeartbeats == { i \in 1..handled : received[i].event # "heartbeat" }

(***************************************************************************)
(* C12: on every stream the client opens (quotes and trades, unfiltered;   *)
(* orders, filtered on "order"; executed orders, filtered on "trade" when  *)
(* the call's or the client's version is 3.0 and unfiltered otherwise), a  *)
(* heartbeat line is never the origin of an object put on the queue or     *)
(* returned by get(): no more objects are put than lines other than        *)
(* heartbeats were handled, and none put or returned stems from a          *)
(* heartbeat line.                                                         *)
(***************************************************************************)
C12_HeartbeatNeverDelivered ==
    /\ event_filter \in StreamFilters
    /\ Len(putlog) <= Cardinality(NonHeartbeats)
    /\ \A i \in 1..Len(received) :
          received[i].event = "heartbeat" =>
              /\ \A j \in 1..Len(putlog) : putlog[j].id \notin {i, 0 - i}
              /\ \A j \in 1..Len(taken) : taken[j].id \notin {i, 0 - i}
              /\ ret.val.id \notin {i, 0 - i}

\* an unfiltered stream: a heartbeat was read and logged as undecodable,
\* then an object the model accepts was put and handed to the consumer
C12_Witness ==
    /\ event_filter = "none"
    /\ handled = 2
    /\ received[1].event = "heartbeat"
    /\ received[2].env = StreamModel
    /\ putlog = <<JVal("inst", StreamModel, 0, 2)>>
    /\ taken = putlog
    /\ rpc = "iter"

\* the configuration errors: the arguments the constructor must refuse
BadConfig(a) ==
    \/ a.version \notin {"1.0", "2.0", "3.0"}
    \/ a.auth = "BASIC" /\ ~(a.appid /\ a.acckey)
    \/ a.auth = "JWT" /\ ~(a.appid /\ a.clientid /\ a.sharedkey /\ a.ttl /\ a.scopes)
    \/ a.auth \notin {"BASIC", "JWT"}

C15_EqualityIsDeepStructural ==
    /\ (dpc = "done" /\ din.op = "eq_decoded") =>
           dout = Out("", Bool(TRUE), <<>>)
    /\ (dpc = "done" /\ din.op = "eq" /\ din.right.t = "inst") =>
           dout = Out("", Bool(Differing(din.left, din.right) = {}), <<>>)

\* C16: == between an instance and a value without the __model__ marker
\* raises; it returns neither False nor True.
C16_NonModelComparisonRaises ==
    (dpc = "done" /\ din.op = "eq" /\ din.right.t # "inst") =>
        dout = Out("ValueError", Null, <<>>)

\* an instance was compared with None and the comparison raised
C16_Witness ==
    /\ dpc = "done"
    /\ din.op = "eq"
    /\ din.right = Null
    /\ dout.exc = "ValueError"

\* C17: for an empty or absent input (None, {}, [], [{}]) both
\* Serializable.from_json and extract_to_model raise nothing and return
\* the instance of the variant with every field None.
C17_EmptyInputGivesUnsetInstance ==
    /\ (dpc = "done" /\ din.op = "from_json" /\ IsEmptyInput(din.obj)) =>
           dout = Out("", EmptyInstance(din.cls), <<>>)
    /\ (dpc = "done" /\ din.op = "extract_to_model" /\ IsEmptyInput(din.data)) =>
           dout = Out("", EmptyInstance(din.ecls), <<>>)

\* the keys of a JSON object are the wire names of the fields of cls
KeysFit(cls, obj) ==
    { obj[i].k : i \in 1..Len(obj) } = { camel(n) : n \in FieldNames(cls) }

Misfits(cls, items) == { i \in 1..Len(items) : ~KeysFit(cls, items[i]) }

OtherPairs(v, a) == { q \in versions \X AbstractTypes : q # <<v, a>> }

DecEq(x, y) ==
    /\ x.t = "dec"
    /\ y.t = "dec"
    /\ IF x.b >= y.b THEN x.a = y.a * 10^(x.b - y.b)
       ELSE y.a = x.a * 10^(y.b - x.b)

\* C20: a JSON number or numeric string with the decimal expansion d
\* decodes to a decimal field equal to d, a boolean stays a boolean, and
\* the field is encoded as the string of its digits.
C20_NumbersDecodeExactly ==
    (dpc = "done" /\ din.op = "number") =>
        /\ dout.exc = ""
        /\ DecEq(dout.val.vals[3], Dec(din.lit.c, din.lit.e))
        /\ dout.val.vals[5] = Bool(din.flag)
        /\ to_json(dout.val, TRUE)[3].v
               = NumStr(dout.val.vals[3].a, dout.val.vals[3].b)

\* C21: an attempt that ends with a response, whatever its status, is the
\* last attempt of the call: the response is what the caller of __request
\* gets, its body is what _get or _post hands on, and no attempt follows.
C21_ResponseEndsCall ==
    /\ \A k \in 1..Len(outcomes) :
          outcomes[k] \in Responses =>
              /\ k = Len(outcomes)
              /\ qpc \in {"returned", "decoding"}
              /\ result = outcomes[k]
    /\ qpc = "decoding" =>
          /\ outcomes[Len(outcomes)] \in Responses
          /\ body \in Bodies

\* the server answered the first attempt with a 4xx and a rejection body:
\* one attempt, and the body went on to the caller
C21_Witness ==
    /\ qpc = "decoding"
    /\ outcomes = << "response 4xx" >>
    /\ tries = 1
    /\ body = JVal("dict", "Reject", 0, 1)

\* C22: every REST call ends: it returns a response or raises.
C22_CallEnds == <>(qpc \in {"returned", "raised", "decoding"})

(***************************************************************************)
(* C23: every request, a REST call's or a (re)connect GET of the reader    *)
(* thread, carries the token self.token holds at the moment the request is *)
(* prepared; a request prepared after the rotation thread's last           *)
(* assignment carries the token assigned then, not an earlier one.         *)
(***************************************************************************)
C23_RequestCarriesCurrentToken ==
    /\ [](sent.at > slept => sent.token = token)
    /\ [][sent' # sent =>
            /\ sent'.token = token
            /\ sent'.header = Bearer(token)
            /\ sent'.at = now]_vars

\* the reader thread has reconnected after a rotation: its second GET
\* carries the token of that rotation, not the one of its first GET
C23_Witness ==
    /\ rpc = "get"
    /\ conns = 2
    /\ sent.by = "stream"
    /\ sent.at = now
    /\ sent.token = token
    /\ token.iat > 0

(***************************************************************************)
(* C24: what a call decides by the version is decided by the effective     *)
(* version (the argument, or self.version when the argument is None): the  *)
(* query keys are accountId and symbolId exactly at 3.0, get_nearest is    *)
(* refused exactly outside 1.0 and 2.0, get_trade_stream exactly outside   *)
(* 3.0, the executed-orders stream filters on "trade" exactly at 3.0, and  *)
(* place_order answers as it does when the effective version is passed.    *)
(***************************************************************************)
C24_DecisionsFollowEffectiveVersion ==
    opc = "done" =>
        LET ev == Effective(version, self_version)
            account == IF ev = "3.0" THEN "accountId" ELSE "account"
            symbol == IF ev = "3.0" THEN "symbolId" ELSE "instrument"
        IN  /\ call = "get_active_orders" => answer = Returns(<<account, symbol>>)
            /\ call = "get_orders" => answer = Returns(<<account>>)
            /\ call = "get_nearest" =>
                   (answer.exc = "TypeError" <=> ev \notin {"1.0", "2.0"})
            /\ call = "get_trade_stream" => (answer.exc = "" <=> ev = "3.0")
            /\ call = "get_exec_orders_stream" =>
                   answer.filter = (IF ev = "3.0" THEN "trade" ELSE "none")
            /\ call = "place_order" => answer = place_order(ev, ev, body)

\* a key in camelCase: letters and digits, the first a lower-case letter
IsCamelCase(k) ==
    /\ k # <<>>
    /\ k[1] \in LowerSet
    /\ \A i \in 1..Len(k) : k[i] \in LowerSet \cup UpperSet \cup DigitSet

\* C25: decode turns a reserved wire key r into the field r_ and encode
\* writes the field r_ as r; for every wire key in camelCase, encode writes
\* the field decode made of it under that same key.
C25_KeysSurviveBothDirections ==
    (dpc = "done" /\ din.op = "key") =>
        /\ din.key \in reserved =>
               /\ dout.val.field = din.key \o << "_" >>
               /\ dout.val.wire = din.key
        /\ IsCamelCase(din.key) => dout.val.wire = din.key

\* an encoded value holds a null, itself or somewhere inside
RECURSIVE HasNull(_)
HasNull(v) ==
    \/ v = Null
    \/ v.t = "list" /\ \E i \in 1..Len(v.items) : HasNull(v.items[i])
    \/ v.t = "dict" /\ \E i \in 1..Len(v.items) : HasNull(v.items[i].v)

\* an encoded value with the nulls inside it taken out
RECURSIVE Strip(_)
Strip(v) ==
    IF v.t = "list"
    THEN LET kept == SelectSeq(v.items, LAMBDA w : w # Null)
         IN  ListV([ i \in 1..Len(kept) |-> Strip(kept[i]) ])
    ELSE IF v.t = "dict"
    THEN LET kept == SelectSeq(v.items, LAMBDA q : q.v # Null)
         IN  DictV([ i \in 1..Len(kept) |-> [k |-> kept[i].k, v |-> Strip(kept[i].v)] ])
    ELSE v

\* the encoding without nulls holds no null at any depth; the keep-null
\* encoding has the key of every field, in order, with null exactly for the
\* unset fields
BothEncodingsShaped ==
    LET lean == dout.val.lean
        full == dout.val.full
        fields == Fields(din.self.cls)
    IN  /\ \A i \in 1..Len(lean) : ~HasNull(lean[i].v)
        /\ Len(full) = Len(fields)
        /\ \A j \in 1..Len(fields) :
              /\ full[j].k = camel(fields[j].name)
              /\ full[j].v = Null <=> din.self.vals[j] = Null
        /\ { lean[i].k : i \in 1..Len(lean) }
               = { full[j].k : j \in { n \in 1..Len(full) : full[n].v # Null } }

\* C26 as stated: to_json() holds no null at any depth, to_json(keep_null=
\* True) has one key for every field, null for the unset ones, and under
\* every key they share the two encodings have the same value.
C26_EncodingsAgreeOnSharedKeys ==
    (dpc = "done" /\ din.op = "to_json") =>
        /\ BothEncodingsShaped
        /\ \A i \in 1..Len(dout.val.lean), j \in 1..Len(dout.val.full) :
              dout.val.lean[i].k = dout.val.full[j].k =>
                  dout.val.lean[i].v = dout.val.full[j].v

\* C26, amended: to_json() holds no null at any depth, to_json(keep_null=
\* True) has one key for every field, null for the unset ones, and under
\* every key they share the value of to_json() is the value of the
\* keep-null encoding with the nulls inside it taken out: the same value
\* when nothing unset is nested in it.
C26_EncodingsAgreeUpToNestedNulls ==
    (dpc = "done" /\ din.op = "to_json") =>
        /\ BothEncodingsShaped
        /\ \A i \in 1..Len(dout.val.lean), j \in 1..Len(dout.val.full) :
              dout.val.lean[i].k = dout.val.full[j].k =>
                  dout.val.lean[i].v = Strip(dout.val.full[j].v)

\* an instance with an unset field and a list holding a model with an unset
\* field and a list with a None entry was encoded both ways
C26_Witness ==
    /\ dpc = "done"
    /\ din.op = "to_json"
    /\ din.self.vals[1] = Null
    /\ din.self.vals[6].t = "list"
    /\ Len(din.self.vals[6].items) = 2
    /\ HasNull(dout.val.full[6].v)
    /\ Len(dout.val.lean) < Len(dout.val.full)

(***************************************************************************)
(* C27: a received line whose decode raises the model's schema error       *)
(* (RuntimeError: the mapping's keys are not the model's fields) is        *)
(* skipped: the pass of the loop that handles it puts nothing, leaves the  *)
(* reader on the same connection waiting for the next line and records no  *)
(* cause of death; and the objects put are still, in order, the decodes of *)
(* the handled lines that decode, those after the rejected line included.  *)
(***************************************************************************)
\* the line reaches the decode and the decode raises RuntimeError
SchemaError(m, filter) ==
    /\ m.kind # "invalid"
    /\ filter # "none" => (m.kind = "dict" /\ m.event = filter /\ m.payload # "absent")
    /\ from_json(StreamModel, Decoded(m, filter), TRUE).exc = "RuntimeError"

C27_SchemaErrorIsSkipped ==
    /\ []((\E i \in 1..handled : SchemaError(received[i], event_filter))
            => putlog = Decodes(HandledLines, event_filter))
    /\ [][(handled' = handled + 1 /\ SchemaError(message, event_filter))
            => /\ rpc' = "iter"
               /\ queue' = queue
               /\ putlog' = putlog
               /\ conns' = conns
               /\ cause' = cause]_vars

\* a rejected line, then one that decodes and is put, on one connection
C27_Witness ==
    /\ handled = 2
    /\ conns = 1
    /\ rpc = "iter"
    /\ SchemaError(received[1], event_filter)
    /\ Delivers(received[2], event_filter)
    /\ Len(putlog) = 1
    /\ putlog[1].t = "inst"
    /\ putlog[1].id \in {2, 0 - 2}

(***************************************************************************)
(* C28: a received line that is valid JSON but no JSON object, or whose    *)
(* event equals the filter while the key the filter names is absent, is    *)
(* skipped: the pass of the loop that handles it puts nothing and leaves   *)
(* the reader thread alive, waiting for the next line.                     *)
(***************************************************************************)
\* valid JSON that is no object
NotAnObject(m) == m.kind = "scalar"

\* the event is the filter's, the payload key is missing
LacksPayload(m, filter) ==
    /\ m.kind = "dict"
    /\ filter # "none"
    /\ m.event = filter
    /\ m.payload = "absent"

C28_MalformedLineIsSkipped ==
    [][(handled' = handled + 1
          /\ (NotAnObject(message) \/ LacksPayload(message, event_filter)))
        => /\ rpc' = "iter"
           /\ putlog' = putlog
           /\ queue' = queue]_vars

(***************************************************************************)
(* C29: once stop() has returned, no step puts an object on the queue or   *)
(* issues a GET; the steps of stop() leave the queue and the objects       *)
(* already returned as they are; and after it the queue changes only by a  *)
(* get() call taking its oldest object, so that the objects returned       *)
(* followed by the objects queued stay the objects put, in their order.    *)
(***************************************************************************)
C29_NothingAfterStopReturns ==
    /\ [](spc = "returned" => taken \o queue = putlog)
    /\ [][spc = "returned" =>
            /\ putlog' = putlog
            /\ conns' = conns
            /\ \/ queue' = queue
               \/ /\ queue # <<>>
                  /\ queue' = Tail(queue)
                  /\ ret' = Returns(Head(queue))]_vars
    /\ [][spc' # spc => (queue' = queue /\ taken' = taken)]_vars

\* stop() has returned with two objects put; the first has been taken by a
\* get() call and the second is still queued
C29_Witness ==
    /\ spc = "returned"
    /\ rpc = "done"
    /\ Len(putlog) = 2
    /\ taken = <<putlog[1]>>
    /\ queue = <<putlog[2]>>
    /\ ret = Returns(putlog[1])

(***************************************************************************)
(* C30: from_json with eraise=True either returns an instance of the       *)
(* target class or raises: for no input does it return None.               *)
(***************************************************************************)
C30_StrictDecodeReturnsInstanceOrRaises ==
    (dpc = "done" /\ din.op = "from_json" /\ din.eraise) =>
        \/ dout.exc # ""
        \/ dout.val.t = "inst" /\ dout.val.shape = din.cls

(***************************************************************************)
(* Specifications.  Each starts one part of the client and leaves the      *)
(* others unused.                                                          *)
(***************************************************************************)
\* a subscription has been opened: HTTPApiStreaming.__init__ has started
\* the reader thread
Init ==
    /\ event_filter \in StreamFilters
    /\ is_finished = FALSE
    /\ queue = <<>>
    /\ rpc = "while"
    /\ message = NoLine
    /\ cause = ""
    /\ spc = "idle"
    /\ ret = NotCalled
    /\ received = <<>>
    /\ putlog = <<>>
    /\ handled = 0
    /\ conns = 0
    /\ drops = 0
    /\ ttl = 1
    /\ token = NoToken
    /\ cpc = "unused"
    /\ jpc = "unstarted"
    /\ jnow = 0
    /\ slept = 0
    /\ now = 0
    /\ sent = NoRequest
    /\ qpc = "unused"
    /\ tries = 0
    /\ elapsed = 0
    /\ clock = 0
    /\ outcomes = <<>>
    /\ result = ""
    /\ opc = "unused"
    /\ call = ""
    /\ version = "none"
    /\ self_version = "2.0"
    /\ body = None
    /\ answer = Returns(None)
    /\ gpc = "idle"
    /\ gcall = NoCall
    /\ taken = <<>>
    /\ hpc = "unused"
    /\ hargs = NoArgs
    /\ self_auth = NoAuth
    /\ dpc = "unused"
    /\ din = NoInput
    /\ dout = NoOutput

Next ==
    \/ LoopTest
    \/ GetReturns
    \/ GetRaises
    \/ NextLine
    \/ StreamEnds
    \/ ReadRaises
    \/ ProcessLine
    \/ Stop
    \/ Join
    \/ Get

Spec == Init /\ [][Next]_vars

\* The steps of the reader thread.  The thread is scheduled, session.get
\* returns or raises (timeout=60), and a read of the stream yields a line,
\* ends or raises; join() returns once the thread has ended.
ReaderStep ==
    \/ LoopTest
    \/ GetReturns
    \/ GetRaises
    \/ NextLine
    \/ StreamEnds
    \/ ReadRaises
    \/ ProcessLine

FairStream == Init /\ [][Next]_vars /\ WF_vars(ReaderStep) /\ WF_vars(Join)

\* the subscription with the pass of the for loop in two steps, so that
\* stop() can be called between the stop test and the try block
NextStop ==
    \/ LoopTest
    \/ GetReturns
    \/ GetRaises
    \/ NextLine
    \/ StreamEnds
    \/ ReadRaises
    \/ LineTest
    \/ LineBody
    \/ Stop
    \/ Join
    \/ Get

SpecStop == Init /\ [][NextStop]_vars

\* the subscription with a consumer that also makes blocking get() calls
NextGet ==
    \/ LoopTest
    \/ GetReturns
    \/ GetRaises
    \/ NextLine
    \/ StreamEnds
    \/ ReadRaises
    \/ ProcessLine
    \/ Stop
    \/ Join
    \/ Get
    \/ GetBlocking
    \/ GetWakes
    \/ GetTimesOut

SpecGet == Init /\ [][NextGet]_vars

\* JWTAuth(...) is about to be constructed
InitJWT ==
    /\ event_filter = "none"
    /\ is_finished = FALSE
    /\ queue = <<>>
    /\ rpc = "unused"
    /\ message = NoLine
    /\ cause = ""
    /\ spc = "unused"
    /\ ret = NotCalled
    /\ received = <<>>
    /\ putlog = <<>>
    /\ handled = 0
    /\ conns = 0
    /\ drops = 0
    /\ ttl \in 1..MaxTtl
    /\ token = NoToken
    /\ cpc = "new"
    /\ jpc = "unstarted"
    /\ jnow = 0
    /\ slept = 0
    /\ now = 0
    /\ sent = NoRequest
    /\ qpc = "unused"
    /\ tries = 0
    /\ elapsed = 0
    /\ clock = 0
    /\ outcomes = <<>>
    /\ result = ""
    /\ opc = "unused"
    /\ call = ""
    /\ version = "none"
    /\ self_version = "2.0"
    /\ body = None
    /\ answer = Returns(None)
    /\ gpc = "idle"
    /\ gcall = NoCall
    /\ taken = <<>>
    /\ hpc = "unused"
    /\ hargs = NoArgs
    /\ self_auth = NoAuth
    /\ dpc = "unused"
    /\ din = NoInput
    /\ dout = NoOutput

NextJWT ==
    \/ Construct
    \/ RunMakeToken
    \/ RunAssign
    \/ RunWake
    \/ Call
    \/ Tick

SpecJWT == InitJWT /\ [][NextJWT]_vars

\* a REST call enters __request
InitRest ==
    /\ event_filter = "none"
    /\ is_finished = FALSE
    /\ queue = <<>>
    /\ rpc = "unused"
    /\ message = NoLine
    /\ cause = ""
    /\ spc = "unused"
    /\ ret = NotCalled
    /\ received = <<>>
    /\ putlog = <<>>
    /\ handled = 0
    /\ conns = 0
    /\ drops = 0
    /\ ttl = 1
    /\ token = NoToken
    /\ cpc = "unused"
    /\ jpc = "unstarted"
    /\ jnow = 0
    /\ slept = 0
    /\ now = 0
    /\ sent = NoRequest
    /\ qpc = "try"
    /\ tries = 0
    /\ elapsed = 0
    /\ clock = 0
    /\ outcomes = <<>>
    /\ result = ""
    /\ opc = "unused"
    /\ call = ""
    /\ version = "none"
    /\ self_version = "2.0"
    /\ body = None
    /\ answer = Returns(None)
    /\ gpc = "idle"
    /\ gcall = NoCall
    /\ taken = <<>>
    /\ hpc = "unused"
    /\ hargs = NoArgs
    /\ self_auth = NoAuth
    /\ dpc = "unused"
    /\ din = NoInput
    /\ dout = NoOutput

NextRest ==
    \/ Attempt
    \/ Backoff
    \/ ReadBody

SpecRest == InitRest /\ [][NextRest]_vars

\* the calling thread runs: the decorator's loop and the caller's next
\* statement are taken when they can be
FairRest == InitRest /\ [][NextRest]_vars /\ WF_vars(NextRest)

\* an order call has posted its request and _post has returned the body
InitOrders ==
    /\ event_filter = "none"
    /\ is_finished = FALSE
    /\ queue = <<>>
    /\ rpc = "unused"
    /\ message = NoLine
    /\ cause = ""
    /\ spc = "unused"
    /\ ret = NotCalled
    /\ received = <<>>
    /\ putlog = <<>>
    /\ handled = 0
    /\ conns = 0
    /\ drops = 0
    /\ ttl = 1
    /\ token = NoToken
    /\ cpc = "unused"
    /\ jpc = "unstarted"
    /\ jnow = 0
    /\ slept = 0
    /\ now = 0
    /\ sent = NoRequest
    /\ qpc = "unused"
    /\ tries = 0
    /\ elapsed = 0
    /\ clock = 0
    /\ outcomes = <<>>
    /\ result = ""
    /\ opc = "call"
    /\ call \in {"place_order", "cancel_order", "replace_order"}
    /\ version \in versions \cup {"none"}
    /\ self_version \in versions
    /\ body \in Bodies
    /\ answer = Returns(None)
    /\ gpc = "idle"
    /\ gcall = NoCall
    /\ taken = <<>>
    /\ hpc = "unused"
    /\ hargs = NoArgs
    /\ self_auth = NoAuth
    /\ dpc = "unused"
    /\ din = NoInput
    /\ dout = NoOutput

NextOrders ==
    \/ PlaceOrder
    \/ ModifyOrder

SpecOrders == InitOrders /\ [][NextOrders]_vars

\* HTTPApi(...) is about to be constructed
InitClientSpec ==
    /\ event_filter = "none"
    /\ is_finished = FALSE
    /\ queue = <<>>
    /\ rpc = "unused"
    /\ message = NoLine
    /\ cause = ""
    /\ spc = "unused"
    /\ ret = NotCalled
    /\ received = <<>>
    /\ putlog = <<>>
    /\ handled = 0
    /\ conns = 0
    /\ drops = 0
    /\ ttl = 1
    /\ token = NoToken
    /\ cpc = "unused"
    /\ jpc = "unstarted"
    /\ jnow = 0
    /\ slept = 0
    /\ now = 0
    /\ sent = NoRequest
    /\ qpc = "unused"
    /\ tries = 0
    /\ elapsed = 0
    /\ clock = 0
    /\ outcomes = <<>>
    /\ result = ""
    /\ opc = "idle"
    /\ call = ""
    /\ version = "none"
    /\ self_version = "unset"
    /\ body = None
    /\ answer = Returns(None)
    /\ gpc = "idle"
    /\ gcall = NoCall
    /\ taken = <<>>
    /\ hpc = "new"
    /\ hargs \in ClientArgs
    /\ self_auth = NoAuth
    /\ dpc = "unused"
    /\ din = NoInput
    /\ dout = NoOutput

NextClient ==
    \/ InitClient
    \/ ApiCall
    \/ RunMakeToken
    \/ RunAssign

SpecClient == InitClientSpec /\ [][NextClient]_vars

(***************************************************************************)
(* The serializer alone: one call, drawn from Inputs.                      *)
(***************************************************************************)
InitSerial ==
    /\ event_filter = "none"
    /\ is_finished = FALSE
    /\ queue = <<>>
    /\ rpc = "unused"
    /\ message = NoLine
    /\ cause = ""
    /\ spc = "unused"
    /\ ret = NotCalled
    /\ received = <<>>
    /\ putlog = <<>>
    /\ handled = 0
    /\ conns = 0
    /\ drops = 0
    /\ ttl = 1
    /\ token = NoToken
    /\ cpc = "unused"
    /\ jpc = "unstarted"
    /\ jnow = 0
    /\ slept = 0
    /\ now = 0
    /\ sent = NoRequest
    /\ qpc = "unused"
    /\ tries = 0
    /\ elapsed = 0
    /\ clock = 0
    /\ outcomes = <<>>
    /\ result = ""
    /\ opc = "unused"
    /\ call = ""
    /\ version = "none"
    /\ self_version = "unset"
    /\ body = None
    /\ answer = Returns(None)
    /\ gpc = "idle"
    /\ gcall = NoCall
    /\ taken = <<>>
    /\ hpc = "unused"
    /\ hargs = NoArgs
    /\ self_auth = NoAuth
    /\ dpc = "input"
    /\ din \in Inputs
    /\ dout = NoOutput

NextSerial ==
    \/ Decode
    \/ Extract
    \/ DecodeList
    \/ RoundTrip
    \/ Compare
    \/ CompareDecoded
    \/ DecodeNumber
    \/ Resolve
    \/ ConvertKey
    \/ Encode

SpecSerial == InitSerial /\ [][NextSerial]_vars

(***************************************************************************)
(* A subscription opened with a JWTAuth: the reader thread connects and    *)
(* reconnects while the rotation thread replaces the token and the client  *)
(* makes REST calls.  It starts when JWTAuth.__init__ and                  *)
(* HTTPApiStreaming.__init__ have returned.                                *)
(***************************************************************************)
InitAuth ==
    /\ event_filter = "none"
    /\ is_finished = FALSE
    /\ queue = <<>>
    /\ rpc = "while"
    /\ message = NoLine
    /\ cause = ""
    /\ spc = "idle"
    /\ ret = NotCalled
    /\ received = <<>>
    /\ putlog = <<>>
    /\ handled = 0
    /\ conns = 0
    /\ drops = 0
    /\ ttl \in 1..MaxTtl
    /\ token = TokenAtInit
    /\ cpc = "returned"
    /\ jpc = StartedAt
    /\ jnow = 0
    /\ slept = 0
    /\ now = 0
    /\ sent = NoRequest
    /\ qpc = "unused"
    /\ tries = 0
    /\ elapsed = 0
    /\ clock = 0
    /\ outcomes = <<>>
    /\ result = ""
    /\ opc = "unused"
    /\ call = ""
    /\ version = "none"
    /\ self_version = "2.0"
    /\ body = None
    /\ answer = Returns(None)
    /\ gpc = "idle"
    /\ gcall = NoCall
    /\ taken = <<>>
    /\ hpc = "unused"
    /\ hargs = NoArgs
    /\ self_auth = NoAuth
    /\ dpc = "unused"
    /\ din = NoInput
    /\ dout = NoOutput

NextAuth ==
    \/ RunMakeToken
    \/ RunAssign
    \/ RunWake
    \/ Call
    \/ Tick
    \/ LoopTest
    \/ GetReturns
    \/ StreamEnds

SpecAuth == InitAuth /\ [][NextAuth]_vars

(***************************************************************************)
(* One call of a method that looks at the version, on a client of any      *)
(* default version, with any version argument.                             *)
(***************************************************************************)
InitVersions ==
    /\ event_filter = "none"
    /\ is_finished = FALSE
    /\ queue = <<>>
    /\ rpc = "unused"
    /\ message = NoLine
    /\ cause = ""
    /\ spc = "unused"
    /\ ret = NotCalled
    /\ received = <<>>
    /\ putlog = <<>>
    /\ handled = 0
    /\ conns = 0
    /\ drops = 0
    /\ ttl = 1
    /\ token = NoToken
    /\ cpc = "unused"
    /\ jpc = "unstarted"
    /\ jnow = 0
    /\ slept = 0
    /\ now = 0
    /\ sent = NoRequest
    /\ qpc = "unused"
    /\ tries = 0
    /\ elapsed = 0
    /\ clock = 0
    /\ outcomes = <<>>
    /\ result = ""
    /\ opc = "call"
    /\ call \in VersionedCalls
    /\ version \in versions \cup {"none"}
    /\ self_version \in versions
    /\ body \in Bodies
    /\ answer = Returns(None)
    /\ gpc = "idle"
    /\ gcall = NoCall
    /\ taken = <<>>
    /\ hpc = "unused"
    /\ hargs = NoArgs
    /\ self_auth = NoAuth
    /\ dpc = "unused"
    /\ din = NoInput
    /\ dout = NoOutput

NextVersions ==
    \/ VersionedCall
    \/ PlaceOrder

SpecVersions == InitVersions /\ [][NextVersions]_vars

====
